---------------------------- MODULE Spec2Model ----------------------------
(***************************************************************************)
(* Aggregation engine of the marketing dashboard: the regional, device,    *)
(* weekly and demographic reducers (useMemo callbacks of the four views),  *)
(* stepped one breakdown entry at a time, over a bounded family of         *)
(* datasets.                                                               *)
(*                                                                         *)
(* Numbers.  Base counters are naturals.  Every quotient of counters is    *)
(* kept as an exact fraction <<n, d>> in lowest terms (d > 0), its         *)
(* rounding not modelled; the JS value NaN (0/0) is <<0, 0>>.  The amounts *)
(* the demographic view allocates are binary64 values, computed bit for    *)
(* bit.                                                                    *)
(***************************************************************************)
EXTENDS Integers, Sequences, FiniteSets, TLC

(* ------------------------------ bounds --------------------------------- *)
MaxCampaigns == 2

MaxEntries == 3

(* ---------------------------- JS numbers ------------------------------- *)
RECURSIVE Gcd(_, _)
Gcd(a, b) == IF b = 0 THEN a ELSE Gcd(b, a % b)

NaN == <<0, 0>>

Num(n) == <<n, 1>>

\* a / b for naturals a, b, guarded by the caller (b > 0) except where the
\* code divides unguarded; 0 / 0 is NaN.
Div(a, b) ==
    IF b = 0 THEN NaN
    ELSE LET g == Gcd(a, b) IN IF g = 0 THEN <<0, 1>> ELSE <<a \div g, b \div g>>

\* q * 100 for a fraction q; NaN * 100 is NaN.
Times100(q) == IF q[2] = 0 THEN NaN ELSE Div(q[1] * 100, q[2])

(* ------------------------ metric recomputation ------------------------- *)
Ctr(impressions, clicks) ==
    IF impressions > 0 THEN Times100(Div(clicks, impressions)) ELSE Num(0)

ConversionRate(clicks, conversions) ==
    IF clicks > 0 THEN Times100(Div(conversions, clicks)) ELSE Num(0)

Cpc(spend, clicks) == IF clicks > 0 THEN Div(spend, clicks) ELSE Num(0)

Cpa(spend, conversions) == IF conversions > 0 THEN Div(spend, conversions) ELSE Num(0)

Roas(spend, revenue) == IF spend > 0 THEN Div(revenue, spend) ELSE Num(0)

(* ------------------------ JS numbers: doubles -------------------------- *)
\* The demographic view multiplies and adds allocated amounts, which are
\* IEEE 754 binary64 values.  They are computed here bit for bit, for
\* finite non-negative values in the normal range.
\*
\* A natural number of any size is a sequence of limbs, least significant
\* first, in base LimbBase, without leading zero limbs; <<>> is 0.
LimbBits == 15

LimbBase == 32768

\* The significand of a binary64 value has 53 bits.
SignificandBits == 53

RECURSIVE BigTrim(_)
BigTrim(a) ==
    IF a # <<>> /\ a[Len(a)] = 0 THEN BigTrim(SubSeq(a, 1, Len(a) - 1)) ELSE a

RECURSIVE BigOfNat(_)
BigOfNat(n) ==
    IF n = 0 THEN <<>> ELSE <<n % LimbBase>> \o BigOfNat(n \div LimbBase)

Limb(a, i) == IF i <= Len(a) THEN a[i] ELSE 0

RECURSIVE BigAddFrom(_, _, _, _)
BigAddFrom(a, b, i, carry) ==
    IF i > Len(a) /\ i > Len(b)
    THEN IF carry = 0 THEN <<>> ELSE <<carry>>
    ELSE LET t == Limb(a, i) + Limb(b, i) + carry
         IN  <<t % LimbBase>> \o BigAddFrom(a, b, i + 1, t \div LimbBase)

BigAdd(a, b) == BigAddFrom(a, b, 1, 0)

\* a - b for a >= b.
RECURSIVE BigSubFrom(_, _, _, _)
BigSubFrom(a, b, i, borrow) ==
    IF i > Len(a) THEN <<>>
    ELSE LET t == a[i] - Limb(b, i) - borrow
         IN  <<(t + LimbBase) % LimbBase>>
             \o BigSubFrom(a, b, i + 1, IF t < 0 THEN 1 ELSE 0)

BigSub(a, b) == BigTrim(BigSubFrom(a, b, 1, 0))

RECURSIVE BigLessFrom(_, _, _)
BigLessFrom(a, b, i) ==
    IF i = 0 THEN FALSE
    ELSE IF a[i] # b[i] THEN a[i] < b[i] ELSE BigLessFrom(a, b, i - 1)

BigLess(a, b) ==
    IF Len(a) # Len(b) THEN Len(a) < Len(b) ELSE BigLessFrom(a, b, Len(a))

\* a * n for a limb n.
RECURSIVE BigMulLimbFrom(_, _, _, _)
BigMulLimbFrom(a, n, i, carry) ==
    IF i > Len(a)
    THEN IF carry = 0 THEN <<>> ELSE <<carry>>
    ELSE LET t == a[i] * n + carry
         IN  <<t % LimbBase>> \o BigMulLimbFrom(a, n, i + 1, t \div LimbBase)

BigMulLimb(a, n) == IF n = 0 THEN <<>> ELSE BigMulLimbFrom(a, n, 1, 0)

\* a * LimbBase^k.
BigShiftLimbs(a, k) == IF a = <<>> THEN <<>> ELSE [i \in 1..k |-> 0] \o a

RECURSIVE BigMulFrom(_, _, _)
BigMulFrom(a, b, i) ==
    IF i > Len(b) THEN <<>>
    ELSE BigAdd(BigShiftLimbs(BigMulLimb(a, b[i]), i - 1), BigMulFrom(a, b, i + 1))

BigMul(a, b) == BigMulFrom(a, b, 1)

\* Quotient and remainder of a by a limb n > 0, from the top limb down.
RECURSIVE BigDivLimbFrom(_, _, _, _)
BigDivLimbFrom(a, n, i, r) ==
    IF i = 0 THEN [q |-> <<>>, r |-> r]
    ELSE LET t == r * LimbBase + a[i]
             rest == BigDivLimbFrom(a, n, i - 1, t % n)
         IN  [q |-> <<t \div n>> \o rest.q, r |-> rest.r]

BigDivLimb(a, n) ==
    LET d == BigDivLimbFrom(a, n, Len(a), 0)
    IN  [q |-> BigTrim([i \in 1..Len(a) |-> d.q[Len(a) + 1 - i]]), r |-> d.r]

\* a * 2^k and the integer part of a / 2^k.
BigShiftLeft(a, k) ==
    IF k % LimbBits = 0 THEN BigShiftLimbs(a, k \div LimbBits)
    ELSE BigShiftLimbs(BigMulLimb(a, 2 ^ (k % LimbBits)), k \div LimbBits)

BigShiftRight(a, k) ==
    LET drop == k \div LimbBits
    IN  IF drop >= Len(a) THEN <<>>
        ELSE IF k % LimbBits = 0 THEN SubSeq(a, drop + 1, Len(a))
        ELSE BigDivLimb(SubSeq(a, drop + 1, Len(a)), 2 ^ (k % LimbBits)).q

\* Bit j of a, the least significant being bit 0.
BigBit(a, j) == (Limb(a, j \div LimbBits + 1) \div 2 ^ (j % LimbBits)) % 2

RECURSIVE BitLength(_)
BitLength(n) == IF n = 0 THEN 0 ELSE 1 + BitLength(n \div 2)

BigBitLength(a) ==
    IF a = <<>> THEN 0 ELSE (Len(a) - 1) * LimbBits + BitLength(a[Len(a)])

\* The number of trailing zero bits of n > 0.
RECURSIVE TrailingZeros(_)
TrailingZeros(n) == IF n % 2 = 1 THEN 0 ELSE 1 + TrailingZeros(n \div 2)

\* A double is [m, e] standing for m * 2^e with m odd, or DZero: every value
\* has one representation, and equality of doubles is equality of records.
DZero == [m |-> <<>>, e |-> 0]

\* The representation of the exact value m * 2^e.
RECURSIVE Dyadic(_, _)
Dyadic(m, e) ==
    IF m = <<>> THEN DZero
    ELSE IF m[1] = 0 THEN Dyadic(Tail(m), e + LimbBits)
    ELSE LET z == TrailingZeros(m[1])
         IN  [m |-> BigShiftRight(m, z), e |-> e + z]

\* The double nearest to the exact value m * 2^e, ties to even.  Past the
\* 53 bits kept, an odd m has discarded bits that are never all zero: they
\* are exactly one half only when a single bit is discarded.
RoundToDouble(m, e) ==
    LET x == Dyadic(m, e)
        k == BigBitLength(x.m) - SignificandBits
    IN  IF k <= 0 THEN x
        ELSE LET q == BigShiftRight(x.m, k)
                 up == IF k = 1 THEN BigBit(q, 0) = 1
                       ELSE BigBit(x.m, k - 1) = 1
             IN  Dyadic(IF up THEN BigAdd(q, <<1>>) ELSE q, x.e + k)

\* The double of a natural below 2^31 (exact).
DOfNat(n) == Dyadic(BigOfNat(n), 0)

\* x * y
DMul(x, y) == RoundToDouble(BigMul(x.m, y.m), x.e + y.e)

\* x + y
DAdd(x, y) ==
    IF x = DZero THEN y
    ELSE IF y = DZero THEN x
    ELSE LET e == IF x.e < y.e THEN x.e ELSE y.e
         IN  RoundToDouble(BigAdd(BigShiftLeft(x.m, x.e - e),
                                  BigShiftLeft(y.m, y.e - e)), e)

\* GuardBits more quotient bits than a limb has are enough for the quotient
\* by a limb to carry 53 bits, a rounding bit and more.
GuardBits == 75

\* x / n for a natural 0 < n < LimbBase: the quotient to GuardBits binary
\* places, a last bit telling whether anything was left over.
DDivNat(x, n) ==
    LET d == BigDivLimb(BigShiftLeft(x.m, GuardBits), n)
        sticky == IF d.r = 0 THEN <<>> ELSE <<1>>
    IN  RoundToDouble(BigAdd(BigMulLimb(d.q, 2), sticky), x.e - GuardBits - 1)

\* |x - y| <= z * 2^(-k), exactly, for doubles x, y, z.
DWithin(x, y, z, k) ==
    LET es == {x.e, y.e, z.e - k}
        e == CHOOSE a \in es : \A b \in es : a <= b
        bx == BigShiftLeft(x.m, x.e - e)
        by == BigShiftLeft(y.m, y.e - e)
        bz == BigShiftLeft(z.m, z.e - k - e)
        diff == IF BigLess(bx, by) THEN BigSub(by, bx) ELSE BigSub(bx, by)
    IN  ~BigLess(bz, diff)

\* The NaN of the doubles: 0 / 0, and every product with it.
DNaN == [isNaN |-> TRUE]

\* Mutant of TrafficShare: the share zero-guarded like the other metrics.
TrafficShareGuarded(dimImpressions, totalImpressions) ==
    IF totalImpressions > 0
    THEN DMul(DDivNat(DOfNat(dimImpressions), totalImpressions), DOfNat(100))
    ELSE DZero

\* Mutant of TrafficShare: the share left as a fraction of 1.
TrafficShareUnscaled(dimImpressions, totalImpressions) ==
    IF totalImpressions = 0 THEN DNaN
    ELSE DDivNat(DOfNat(dimImpressions), totalImpressions)

\* dim_impressions / total_impressions * 100 in doubles, not zero-guarded:
\* the total is the sum of the two buckets, so a zero total is 0 / 0.
TrafficShare(dimImpressions, totalImpressions) ==
    IF totalImpressions = 0 THEN DNaN
    ELSE DMul(DDivNat(DOfNat(dimImpressions), totalImpressions), DOfNat(100))

(* ------------------------------ dataset -------------------------------- *)
Counters(i, c, v, s, r) ==
    [impressions |-> i, clicks |-> c, conversions |-> v, spend |-> s, revenue |-> r]

\* Derived fields as the data source would have computed them.
FreshDerived(k) ==
    [ctr |-> Ctr(k.impressions, k.clicks),
     conversion_rate |-> ConversionRate(k.clicks, k.conversions),
     cpc |-> Cpc(k.spend, k.clicks),
     cpa |-> Cpa(k.spend, k.conversions),
     roas |-> Roas(k.spend, k.revenue)]

\* Derived fields that do not agree with the entry's counters.
StaleDerived ==
    [ctr |-> Num(7), conversion_rate |-> Num(7), cpc |-> Num(7),
     cpa |-> Num(7), roas |-> Num(7)]

\* RegionalPerformance (region, country, five counters, five derived fields).
RegionalEntry(region, country, k, d) ==
    [region |-> region, country |-> country,
     impressions |-> k.impressions, clicks |-> k.clicks,
     conversions |-> k.conversions, spend |-> k.spend, revenue |-> k.revenue,
     ctr |-> d.ctr, conversion_rate |-> d.conversion_rate, cpc |-> d.cpc,
     cpa |-> d.cpa, roas |-> d.roas]

CountersZero == Counters(0, 0, 0, 0, 0)

CountersA == Counters(1000, 50, 5, 100, 300)

CountersB == Counters(2000, 100, 10, 200, 600)

RegionalEntries ==
    { RegionalEntry("Dubai", "UAE", CountersA, FreshDerived(CountersA)),
      RegionalEntry("Dubai", "UAE", CountersB, StaleDerived),
      RegionalEntry("Dubai", "UAE", CountersZero, StaleDerived),
      RegionalEntry("a_b", "c", CountersA, FreshDerived(CountersA)),
      RegionalEntry("a", "b_c", CountersB, FreshDerived(CountersB)),
      RegionalEntry("a", "b_c", CountersZero, FreshDerived(CountersZero)) }

RECURSIVE SumLens(_, _)
SumLens(lens, n) == IF n = 0 THEN 0 ELSE lens[n] + SumLens(lens, n - 1)

\* The slice of the flat entry list that belongs to campaign c.
Slice(s, lens, c) ==
    LET from == SumLens(lens, c - 1) IN [i \in 1..lens[c] |-> s[from + i]]

\* The campaigns of the datasets alternate between two budgets.
CampaignSpend(c) == IF c % 2 = 1 THEN 1000 ELSE 7

CampaignRevenue(c) == IF c % 2 = 1 THEN 2000 ELSE 300

EmptyCampaign(c) ==
    [name |-> "Campaign " \o ToString(c),
     spend |-> CampaignSpend(c), revenue |-> CampaignRevenue(c),
     regional_performance |-> <<>>, device_performance |-> <<>>,
     weekly_performance |-> <<>>, demographic_breakdown |-> <<>>]

\* marketingData: null, loaded without a campaign list, or loaded with one.
NullData == [loaded |-> FALSE, hasCampaigns |-> FALSE, campaigns |-> <<>>]

NoCampaignsData == [loaded |-> TRUE, hasCampaigns |-> FALSE, campaigns |-> <<>>]

Loaded(campaigns) == [loaded |-> TRUE, hasCampaigns |-> TRUE, campaigns |-> campaigns]

\* The campaign list of n campaigns whose entries of the dimension dim are
\* the consecutive slices, of lengths lens, of the entry list s.
CampaignList(dim, s, lens, n) ==
    [c \in 1..n |-> [EmptyCampaign(c) EXCEPT ![dim] = Slice(s, lens, c)]]

\* The nested forEach over campaigns and their entries of one dimension
\* visits the entries in this order.
RECURSIVE Flat(_, _, _)
Flat(campaigns, dim, c) ==
    IF c > Len(campaigns) THEN <<>>
    ELSE [j \in 1..Len(campaigns[c][dim]) |->
              [campaign |-> c, index |-> j, entry |-> campaigns[c][dim][j]]]
         \o Flat(campaigns, dim, c + 1)

(* ----------------- keyed accumulator objects (JS objects) -------------- *)
\* An object used as a map is a sequence of [key, val] in insertion order.
\* Keys built as `${a}_${b}` contain "_" and so are never array indices:
\* Object.values enumerates them in insertion order.
MapIndex(map, key) ==
    IF \E i \in 1..Len(map) : map[i].key = key
    THEN CHOOSE i \in 1..Len(map) : map[i].key = key
    ELSE 0

ObjectValues(map) == [i \in 1..Len(map) |-> map[i].val]

(* --------------------------- object identity --------------------------- *)
\* The object a map holds under a key is either an object of its own or one
\* of the entries of the dataset.  It is described by <<>> in the first case
\* and by <<ref>> in the second, ref = <<campaign, index>> locating the entry.

\* Storing the entry itself (map[key] = entry): the map holds the entry.
SameObject(ref) == <<ref>>

\* Storing a spread ({ ...entry }): the map holds a new object.
Spread(ref) == <<>>

\* An assignment to the fields of a held object reaches the dataset when
\* the object is one of its entries: the dataset after obj was written.
WriteThrough(data, dim, held, obj) ==
    IF held = <<>> THEN data
    ELSE [data EXCEPT !.campaigns[held[1][1]][dim][held[1][2]] = obj]

(* -------------------------- regional aggregator ------------------------ *)
UAE_CITY_COORDINATES ==
    [r \in {"Dubai", "Sharjah", "Abu Dhabi", "Al Ain", "Ras Al Khaimah",
            "Fujairah", "Ajman", "Umm Al Quwain"} |->
        CASE r = "Dubai" -> <<Div(252048, 10000), Div(552708, 10000)>>
          [] r = "Sharjah" -> <<Div(253460, 10000), Div(554200, 10000)>>
          [] r = "Abu Dhabi" -> <<Div(244539, 10000), Div(543773, 10000)>>
          [] r = "Al Ain" -> <<Div(241302, 10000), Div(558023, 10000)>>
          [] r = "Ras Al Khaimah" -> <<Div(256741, 10000), Div(559804, 10000)>>
          [] r = "Fujairah" -> <<Div(251288, 10000), Div(563265, 10000)>>
          [] r = "Ajman" -> <<Div(254052, 10000), Div(555136, 10000)>>
          [] r = "Umm Al Quwain" -> <<Div(255653, 10000), Div(555533, 10000)>>]

\* JS undefined, for an optional number.
Undefined == <<>>

\* JS null, for an optional record.
Null == [isNull |-> TRUE]

RegionKey(region) == region.region \o "_" \o region.country

\* { ...region, campaignCount: 1 }
FirstOfRegion(region) ==
    [region |-> region.region, country |-> region.country,
     impressions |-> region.impressions, clicks |-> region.clicks,
     conversions |-> region.conversions, spend |-> region.spend,
     revenue |-> region.revenue,
     ctr |-> region.ctr, conversion_rate |-> region.conversion_rate,
     cpc |-> region.cpc, cpa |-> region.cpa, roas |-> region.roas,
     campaignCount |-> 1]

\* The else branch without the recalculation: the counters are added and
\* the derived metrics are those stored on the incoming entry.
MergeRegionTakingStoredDerived(r, region) ==
    [region |-> r.region, country |-> r.country,
     impressions |-> r.impressions + region.impressions,
     clicks |-> r.clicks + region.clicks,
     conversions |-> r.conversions + region.conversions,
     spend |-> r.spend + region.spend,
     revenue |-> r.revenue + region.revenue,
     ctr |-> region.ctr, conversion_rate |-> region.conversion_rate,
     cpc |-> region.cpc, cpa |-> region.cpa, roas |-> region.roas,
     campaignCount |-> r.campaignCount + 1]

\* The else branch with the count left as it is: the group counts once,
\* however many entries are folded into it.
MergeRegionNotCounting(r, region) ==
    LET impressions == r.impressions + region.impressions
        clicks == r.clicks + region.clicks
        conversions == r.conversions + region.conversions
        spend == r.spend + region.spend
        revenue == r.revenue + region.revenue
    IN  [region |-> r.region, country |-> r.country,
         impressions |-> impressions, clicks |-> clicks,
         conversions |-> conversions, spend |-> spend, revenue |-> revenue,
         ctr |-> Ctr(impressions, clicks),
         conversion_rate |-> ConversionRate(clicks, conversions),
         cpc |-> Cpc(spend, clicks),
         cpa |-> Cpa(spend, conversions),
         roas |-> Roas(spend, revenue),
         campaignCount |-> r.campaignCount]

\* The else branch: add the counters, then recalculate the derived metrics.
MergeRegion(r, region) ==
    LET impressions == r.impressions + region.impressions
        clicks == r.clicks + region.clicks
        conversions == r.conversions + region.conversions
        spend == r.spend + region.spend
        revenue == r.revenue + region.revenue
    IN  [region |-> r.region, country |-> r.country,
         impressions |-> impressions, clicks |-> clicks,
         conversions |-> conversions, spend |-> spend, revenue |-> revenue,
         ctr |-> Ctr(impressions, clicks),
         conversion_rate |-> ConversionRate(clicks, conversions),
         cpc |-> Cpc(spend, clicks),
         cpa |-> Cpa(spend, conversions),
         roas |-> Roas(spend, revenue),
         campaignCount |-> r.campaignCount + 1]

\* One iteration of the inner forEach.
FoldRegion(map, region) ==
    LET regionKey == RegionKey(region)
        i == MapIndex(map, regionKey)
    IN  IF i = 0
        THEN Append(map, [key |-> regionKey, val |-> FirstOfRegion(region)])
        ELSE [map EXCEPT ![i].val = MergeRegion(@, region)]

\* The conversion with the value fixed to the revenue, whatever the selector.
WithCoordinatesRevenueOnly(region, valueKey) ==
    LET known == region.region \in DOMAIN UAE_CITY_COORDINATES
    IN  [region |-> region.region, country |-> region.country,
         impressions |-> region.impressions, clicks |-> region.clicks,
         conversions |-> region.conversions, spend |-> region.spend,
         revenue |-> region.revenue,
         ctr |-> region.ctr, conversion_rate |-> region.conversion_rate,
         cpc |-> region.cpc, cpa |-> region.cpa, roas |-> region.roas,
         campaignCount |-> region.campaignCount,
         lat |-> IF known THEN UAE_CITY_COORDINATES[region.region][1] ELSE Undefined,
         lng |-> IF known THEN UAE_CITY_COORDINATES[region.region][2] ELSE Undefined,
         value |-> region.revenue]

\* The conversion with the heat map's fallback position for a region that
\* the table does not list.
WithCoordinatesDefaulted(region, valueKey) ==
    LET known == region.region \in DOMAIN UAE_CITY_COORDINATES
    IN  [region |-> region.region, country |-> region.country,
         impressions |-> region.impressions, clicks |-> region.clicks,
         conversions |-> region.conversions, spend |-> region.spend,
         revenue |-> region.revenue,
         ctr |-> region.ctr, conversion_rate |-> region.conversion_rate,
         cpc |-> region.cpc, cpa |-> region.cpa, roas |-> region.roas,
         campaignCount |-> region.campaignCount,
         lat |-> IF known THEN UAE_CITY_COORDINATES[region.region][1] ELSE Num(25),
         lng |-> IF known THEN UAE_CITY_COORDINATES[region.region][2] ELSE Num(55),
         value |-> region[valueKey]]

\* Convert to array and add coordinates and the selected value.
WithCoordinates(region, valueKey) ==
    LET known == region.region \in DOMAIN UAE_CITY_COORDINATES
    IN  [region |-> region.region, country |-> region.country,
         impressions |-> region.impressions, clicks |-> region.clicks,
         conversions |-> region.conversions, spend |-> region.spend,
         revenue |-> region.revenue,
         ctr |-> region.ctr, conversion_rate |-> region.conversion_rate,
         cpc |-> region.cpc, cpa |-> region.cpa, roas |-> region.roas,
         campaignCount |-> region.campaignCount,
         lat |-> IF known THEN UAE_CITY_COORDINATES[region.region][1] ELSE Undefined,
         lng |-> IF known THEN UAE_CITY_COORDINATES[region.region][2] ELSE Undefined,
         value |-> region[valueKey]]

RegionalData(map, valueKey) ==
    LET vals == ObjectValues(map)
    IN  [i \in 1..Len(vals) |-> WithCoordinates(vals[i], valueKey)]

RECURSIVE SumField(_, _, _)
SumField(data, f, n) == IF n = 0 THEN 0 ELSE SumField(data, f, n - 1) + data[n][f]

Totals(data) ==
    [totalRevenue |-> SumField(data, "revenue", Len(data)),
     totalSpend |-> SumField(data, "spend", Len(data)),
     totalImpressions |-> SumField(data, "impressions", Len(data)),
     totalClicks |-> SumField(data, "clicks", Len(data)),
     totalConversions |-> SumField(data, "conversions", Len(data))]

\* Mutant of TopStep: >= in place of >, so that a later tie is promoted.
TopStepPromotingTies(top, current) ==
    IF current.revenue >= (IF top = Null THEN 0 ELSE top.revenue) THEN current ELSE top

\* current.revenue > (top?.revenue || 0) ? current : top
TopStep(top, current) ==
    IF current.revenue > (IF top = Null THEN 0 ELSE top.revenue) THEN current ELSE top

\* regionalData.reduce(TopStep, null), left to right.
RECURSIVE TopRegion(_, _)
TopRegion(data, n) ==
    IF n = 0 THEN Null ELSE TopStep(TopRegion(data, n - 1), data[n])

RegionalDefault ==
    [totalRevenue |-> 0, totalSpend |-> 0, totalImpressions |-> 0,
     totalClicks |-> 0, totalConversions |-> 0,
     regionalData |-> <<>>, topRegion |-> Null]

RegionalResult(map, valueKey) ==
    LET data == RegionalData(map, valueKey)
        totals == Totals(data)
    IN  [totalRevenue |-> totals.totalRevenue, totalSpend |-> totals.totalSpend,
         totalImpressions |-> totals.totalImpressions,
         totalClicks |-> totals.totalClicks,
         totalConversions |-> totals.totalConversions,
         regionalData |-> data, topRegion |-> TopRegion(data, Len(data))]

\* The whole loop over a campaign list.
RECURSIVE FoldRegions(_, _)
FoldRegions(flat, n) ==
    IF n = 0 THEN <<>> ELSE FoldRegion(FoldRegions(flat, n - 1), flat[n].entry)

\* The useMemo callback as a function of its inputs.
RegionalMetricsOf(data, valueKey) ==
    IF ~(data.loaded /\ data.hasCampaigns) THEN RegionalDefault
    ELSE LET flat == Flat(data.campaigns, "regional_performance", 1)
         IN  RegionalResult(FoldRegions(flat, Len(flat)), valueKey)

(* --------------------------- device aggregator ------------------------- *)
\* DevicePerformance (device label, five counters, stored ctr and rate).
DeviceEntry(device, k, d) ==
    [device |-> device,
     impressions |-> k.impressions, clicks |-> k.clicks,
     conversions |-> k.conversions, spend |-> k.spend, revenue |-> k.revenue,
     ctr |-> d.ctr, conversion_rate |-> d.conversion_rate]

\* Clicks recorded without impressions.
CountersNoImp == Counters(0, 4, 1, 0, 0)

DeviceEntries ==
    { DeviceEntry("Mobile", CountersA, FreshDerived(CountersA)),
      DeviceEntry("Mobile", CountersNoImp, FreshDerived(CountersNoImp)),
      DeviceEntry("Desktop", CountersB, StaleDerived),
      DeviceEntry("Desktop", CountersZero, FreshDerived(CountersZero)),
      DeviceEntry("Tablet", CountersA, FreshDerived(CountersA)),
      DeviceEntry("mobile", CountersB, FreshDerived(CountersB)) }

\* The initial mobileData / desktopData object.
BucketZero ==
    [impressions |-> 0, clicks |-> 0, conversions |-> 0, spend |-> 0,
     revenue |-> 0, ctr |-> Num(0), conversion_rate |-> Num(0),
     percentage_of_traffic |-> DZero, campaignCount |-> 0]

AddDevice(bucket, device) ==
    [bucket EXCEPT !.impressions = @ + device.impressions,
                   !.clicks = @ + device.clicks,
                   !.conversions = @ + device.conversions,
                   !.spend = @ + device.spend,
                   !.revenue = @ + device.revenue,
                   !.campaignCount = @ + 1]

\* The row pushed to performanceByCampaign for one entry.
CampaignRow(campaign, device) ==
    [campaignName |-> campaign.name, device |-> device.device,
     impressions |-> device.impressions, clicks |-> device.clicks,
     conversions |-> device.conversions, spend |-> device.spend,
     revenue |-> device.revenue, ctr |-> device.ctr,
     conversion_rate |-> device.conversion_rate,
     roas |-> IF device.spend > 0 THEN Div(device.revenue, device.spend) ELSE Num(0)]

DeviceAccZero == [mobile |-> BucketZero, desktop |-> BucketZero, rows |-> <<>>]

\* Mutant of FoldDevice: a plain else, so that every label other than
\* "Mobile" is counted as Desktop.
FoldDeviceElseDesktop(acc, campaign, device) ==
    [mobile |-> IF device.device = "Mobile"
                THEN AddDevice(acc.mobile, device) ELSE acc.mobile,
     desktop |-> IF device.device # "Mobile"
                 THEN AddDevice(acc.desktop, device) ELSE acc.desktop,
     rows |-> Append(acc.rows, CampaignRow(campaign, device))]

\* Mutant of FoldDevice: a row is pushed only for the two known labels.
FoldDeviceKnownRowsOnly(acc, campaign, device) ==
    [mobile |-> IF device.device = "Mobile"
                THEN AddDevice(acc.mobile, device) ELSE acc.mobile,
     desktop |-> IF device.device # "Mobile" /\ device.device = "Desktop"
                 THEN AddDevice(acc.desktop, device) ELSE acc.desktop,
     rows |-> IF device.device \in {"Mobile", "Desktop"}
              THEN Append(acc.rows, CampaignRow(campaign, device)) ELSE acc.rows]

\* One iteration of the inner forEach: acc holds mobileData, desktopData and
\* performanceByCampaign.
FoldDevice(acc, campaign, device) ==
    [mobile |-> IF device.device = "Mobile"
                THEN AddDevice(acc.mobile, device) ELSE acc.mobile,
     desktop |-> IF device.device # "Mobile" /\ device.device = "Desktop"
                 THEN AddDevice(acc.desktop, device) ELSE acc.desktop,
     rows |-> Append(acc.rows, CampaignRow(campaign, device))]

\* Derived metrics of one bucket after the loop; other is the other bucket.
DeviceDerived(bucket, other) ==
    [bucket EXCEPT
        !.ctr = IF bucket.impressions > 0
                THEN Times100(Div(bucket.clicks, bucket.impressions)) ELSE Num(0),
        !.conversion_rate = IF bucket.clicks > 0
                THEN Times100(Div(bucket.conversions, bucket.clicks)) ELSE Num(0),
        !.percentage_of_traffic =
            TrafficShare(bucket.impressions, bucket.impressions + other.impressions)]

ChartPoint(label, value, color) == [label |-> label, value |-> value, color |-> color]

DeviceDefault ==
    [mobile |-> BucketZero, desktop |-> BucketZero,
     deviceComparison |-> <<>>, performanceByCampaign |-> <<>>,
     roasComparison |-> <<>>, conversionRateComparison |-> <<>>]

\* Everything after the loop: derived metrics, chart series, the result.
DeviceResult(acc) ==
    LET mobileData == DeviceDerived(acc.mobile, acc.desktop)
        desktopData == DeviceDerived(acc.desktop, acc.mobile)
    IN  [mobile |-> mobileData, desktop |-> desktopData,
         deviceComparison |->
            << ChartPoint("Mobile", Num(mobileData.revenue), "#3B82F6"),
               ChartPoint("Desktop", Num(desktopData.revenue), "#10B981") >>,
         performanceByCampaign |-> acc.rows,
         roasComparison |->
            << ChartPoint("Mobile", Roas(mobileData.spend, mobileData.revenue), "#3B82F6"),
               ChartPoint("Desktop", Roas(desktopData.spend, desktopData.revenue), "#10B981") >>,
         conversionRateComparison |->
            << ChartPoint("Mobile", mobileData.conversion_rate, "#3B82F6"),
               ChartPoint("Desktop", desktopData.conversion_rate, "#10B981") >>]

RECURSIVE FoldDevices(_, _, _)
FoldDevices(campaigns, flat, n) ==
    IF n = 0 THEN DeviceAccZero
    ELSE FoldDevice(FoldDevices(campaigns, flat, n - 1),
                    campaigns[flat[n].campaign], flat[n].entry)

\* The useMemo callback as a function of its input.
DeviceMetricsOf(data) ==
    IF ~(data.loaded /\ data.hasCampaigns) THEN DeviceDefault
    ELSE LET flat == Flat(data.campaigns, "device_performance", 1)
         IN  DeviceResult(FoldDevices(data.campaigns, flat, Len(flat)))

(* --------------------------- weekly aggregator ------------------------- *)
\* WeeklyPerformance (week_start, week_end, five counters).
WeeklyEntry(weekStart, weekEnd, k) ==
    [week_start |-> weekStart, week_end |-> weekEnd,
     impressions |-> k.impressions, clicks |-> k.clicks,
     conversions |-> k.conversions, spend |-> k.spend, revenue |-> k.revenue]

WeeklyEntries ==
    { WeeklyEntry("2024-02-01", "2024-02-07", CountersA),
      WeeklyEntry("2024-02-01", "2024-02-07", CountersB),
      WeeklyEntry("2024-01-01", "2024-01-07", CountersA),
      WeeklyEntry("2024-01-01", "2024-01-14", CountersB),
      WeeklyEntry("2024-03-01", "2024-03-07", CountersZero),
      WeeklyEntry("2024-03-01", "2024-03-07", CountersB) }

\* new Date(s).getTime() for the date strings of the datasets, in days
\* since the epoch (getTime() / 86400000).
GetTime(s) ==
    CASE s = "2024-01-01" -> 19723
      [] s = "2024-02-01" -> 19754
      [] s = "2024-03-01" -> 19783

\* toLocaleDateString('en-US', { month: 'short', day: 'numeric' }) of the
\* same dates (in a time zone at or east of UTC).
ShortDate(s) ==
    CASE s = "2024-01-01" -> "Jan 1"
      [] s = "2024-02-01" -> "Feb 1"
      [] s = "2024-03-01" -> "Mar 1"

WeekKey(week) == week.week_start \o "_" \o week.week_end

\* The else branch doing nothing: a later entry of a week is dropped.
MergeWeekDroppingEntry(w, week) == w

\* The else branch: add the five counters to the stored copy.
MergeWeek(w, week) ==
    [w EXCEPT !.impressions = @ + week.impressions,
              !.clicks = @ + week.clicks,
              !.conversions = @ + week.conversions,
              !.spend = @ + week.spend,
              !.revenue = @ + week.revenue]

\* One iteration of the inner forEach ({ ...week } is a copy of the entry).
FoldWeek(map, week) ==
    LET weekKey == WeekKey(week)
        i == MapIndex(map, weekKey)
    IN  IF i = 0
        THEN Append(map, [key |-> weekKey, val |-> week])
        ELSE [map EXCEPT ![i].val = MergeWeek(@, week)]

\* The sort with the comparator's operands exchanged (b - a): descending.
RECURSIVE InsertWeekDescending(_, _)
InsertWeekDescending(sorted, w) ==
    IF sorted = <<>> THEN <<w>>
    ELSE LET last == sorted[Len(sorted)]
         IN  IF GetTime(w.week_start) - GetTime(last.week_start) > 0
             THEN Append(InsertWeekDescending(SubSeq(sorted, 1, Len(sorted) - 1), w),
                         last)
             ELSE Append(sorted, w)

\* Array.prototype.sort is stable: w goes after every element that does not
\* compare greater than it.
RECURSIVE InsertWeek(_, _)
InsertWeek(sorted, w) ==
    IF sorted = <<>> THEN <<w>>
    ELSE LET last == sorted[Len(sorted)]
         IN  IF GetTime(last.week_start) - GetTime(w.week_start) > 0
             THEN Append(InsertWeek(SubSeq(sorted, 1, Len(sorted) - 1), w), last)
             ELSE Append(sorted, w)

RECURSIVE SortWeeks(_, _)
SortWeeks(vals, n) ==
    IF n = 0 THEN <<>> ELSE InsertWeek(SortWeeks(vals, n - 1), vals[n])

WeekSeries(weeklyData, f, color) ==
    [i \in 1..Len(weeklyData) |->
        ChartPoint("Week " \o ShortDate(weeklyData[i].week_start),
                   weeklyData[i][f], color)]

\* The early return: it has no weeklyData field.
WeeklyDefault ==
    [totalRevenue |-> 0, totalSpend |-> 0, totalImpressions |-> 0,
     totalClicks |-> 0, totalConversions |-> 0,
     revenueByWeek |-> <<>>, spendByWeek |-> <<>>,
     impressionsByWeek |-> <<>>, clicksByWeek |-> <<>>]

\* Everything after the loop: sort, totals, chart series, the result.
WeeklyResult(map) ==
    LET vals == ObjectValues(map)
        weeklyData == SortWeeks(vals, Len(vals))
        totals == Totals(weeklyData)
    IN  [totalRevenue |-> totals.totalRevenue, totalSpend |-> totals.totalSpend,
         totalImpressions |-> totals.totalImpressions,
         totalClicks |-> totals.totalClicks,
         totalConversions |-> totals.totalConversions,
         revenueByWeek |-> WeekSeries(weeklyData, "revenue", "#10B981"),
         spendByWeek |-> WeekSeries(weeklyData, "spend", "#3B82F6"),
         impressionsByWeek |-> WeekSeries(weeklyData, "impressions", "#F59E0B"),
         clicksByWeek |-> WeekSeries(weeklyData, "clicks", "#EF4444"),
         weeklyData |-> weeklyData]

RECURSIVE FoldWeeks(_, _)
FoldWeeks(flat, n) ==
    IF n = 0 THEN <<>> ELSE FoldWeek(FoldWeeks(flat, n - 1), flat[n].entry)

\* The useMemo callback as a function of its input.
WeeklyMetricsOf(data) ==
    IF ~(data.loaded /\ data.hasCampaigns) THEN WeeklyDefault
    ELSE LET flat == Flat(data.campaigns, "weekly_performance", 1)
         IN  WeeklyResult(FoldWeeks(flat, Len(flat)))

\* Reading weeklyMetrics.weeklyData.length throws a TypeError when the
\* result has no weeklyData.
WeeklyContentThrows(metrics) == "weeklyData" \notin DOMAIN metrics

(* ------------------------------ line chart ----------------------------- *)
\* Math.max(...) and Math.min(...) over the values of a non-empty series.
MaxValue(data) ==
    CHOOSE v \in { data[i].value : i \in 1..Len(data) } :
        \A i \in 1..Len(data) : data[i].value <= v

MinValue(data) ==
    CHOOSE v \in { data[i].value : i \in 1..Len(data) } :
        \A i \in 1..Len(data) : v <= data[i].value

\* (index / (data.length - 1)) * 100; for a single point 0 / 0 * 100.
PointX(index, length) == Times100(Div(index, length - 1))

\* valueRange > 0 ? 100 - ((item.value - minValue) / valueRange) * 100 : 50,
\* as the exact fraction.
PointY(value, minValue, valueRange) ==
    IF valueRange > 0
    THEN Div(100 * valueRange - 100 * (value - minValue), valueRange)
    ELSE Num(50)

\* The points of the LineChart: none for an empty series ("No data
\* available"), else one per item, the index counted from 0.
LineChart(data) ==
    IF Len(data) = 0 THEN <<>>
    ELSE LET maxValue == MaxValue(data)
             minValue == MinValue(data)
             valueRange == maxValue - minValue
         IN  [i \in 1..Len(data) |->
                 [x |-> PointX(i - 1, Len(data)),
                  y |-> PointY(data[i].value, minValue, valueRange),
                  value |-> data[i].value, label |-> data[i].label]]

\* The four line charts of the weekly view.
WeeklyCharts(metrics) ==
    << LineChart(metrics.revenueByWeek), LineChart(metrics.spendByWeek),
       LineChart(metrics.impressionsByWeek), LineChart(metrics.clicksByWeek) >>

(* ------------------------ demographic aggregator ----------------------- *)
Performance(i, c, v) == [impressions |-> i, clicks |-> c, conversions |-> v]

\* DemographicBreakdown (age_group, gender, percentage_of_audience and the
\* nested performance record).
DemographicEntry(ageGroup, gender, percentage, performance) ==
    [age_group |-> ageGroup, gender |-> gender,
     percentage_of_audience |-> percentage, performance |-> performance]

DemographicEntries ==
    { DemographicEntry("25-34", "Male", 60, Performance(1000, 50, 5)),
      DemographicEntry("25-34", "FEMALE", 40, Performance(2000, 100, 10)),
      DemographicEntry("65", "Other", 20, Performance(1000, 50, 5)),
      DemographicEntry("65", "male", 20, Performance(0, 4, 1)) }

\* String.prototype.toLowerCase on the gender strings of the datasets.
ToLowerCase(s) ==
    CASE s = "Male" -> "male"
      [] s = "FEMALE" -> "female"
      [] s = "Other" -> "other"
      [] OTHER -> s

\* A property key that is a canonical array index (the decimal form of an
\* integer from 0 to 2^32 - 2) is an integer key: <<its number>>, and <<>>
\* for any other key, among the age_group strings of the datasets.
ArrayIndex(key) ==
    CASE key = "25" -> <<25>>
      [] key = "65" -> <<65>>
      [] OTHER -> <<>>

\* OrdinaryOwnPropertyKeys: the integer keys in ascending numeric order,
\* then the other string keys in the order of their creation.  The
\* positions of a map in that order.
RECURSIVE AscendingIndexKeys(_, _)
AscendingIndexKeys(map, S) ==
    IF S = {} THEN <<>>
    ELSE LET i == CHOOSE i \in S :
                    \A j \in S : ArrayIndex(map[i].key)[1] <= ArrayIndex(map[j].key)[1]
         IN  <<i>> \o AscendingIndexKeys(map, S \ {i})

OwnPropertyKeys(map) ==
    AscendingIndexKeys(map, {i \in 1..Len(map) : ArrayIndex(map[i].key) # <<>>})
    \o SelectSeq([i \in 1..Len(map) |-> i], LAMBDA i : ArrayIndex(map[i].key) = <<>>)

\* Object.entries(map)
ObjectEntries(map) ==
    LET order == OwnPropertyKeys(map) IN [k \in 1..Len(map) |-> map[order[k]]]

\* Mutant of AudiencePercentage: the percentage taken as the fraction.
AudiencePercentageUndivided(breakdown) == DOfNat(breakdown.percentage_of_audience)

\* breakdown.percentage_of_audience / 100
AudiencePercentage(breakdown) == DDivNat(DOfNat(breakdown.percentage_of_audience), 100)

\* campaign.spend * audiencePercentage and campaign.revenue *
\* audiencePercentage
Allocated(campaign, breakdown) ==
    LET audiencePercentage == AudiencePercentage(breakdown)
    IN  [spend |-> DMul(DOfNat(campaign.spend), audiencePercentage),
         revenue |-> DMul(DOfNat(campaign.revenue), audiencePercentage)]

\* if (!map[key]) map[key] = 0: for an absent key and for a stored 0.
InitAmount(map, key) ==
    LET i == MapIndex(map, key)
    IN  IF i = 0 THEN Append(map, [key |-> key, val |-> DZero])
        ELSE IF map[i].val = DZero THEN [map EXCEPT ![i].val = DZero]
        ELSE map

\* Mutant of AddAmount: map[key] = x
AddAmountOverwriting(map, key, x) == [map EXCEPT ![MapIndex(map, key)].val = x]

\* map[key] += x
AddAmount(map, key, x) == [map EXCEPT ![MapIndex(map, key)].val = DAdd(@, x)]

AgeGroupZero ==
    [impressions |-> 0, clicks |-> 0, conversions |-> 0,
     ctr |-> Num(0), conversion_rate |-> Num(0)]

\* Initialize the age group of a gender if absent, then add the entry's own
\* impressions, clicks and conversions.
AddPerformance(map, key, performance) ==
    LET i == MapIndex(map, key)
        m == IF i = 0 THEN Append(map, [key |-> key, val |-> AgeGroupZero]) ELSE map
        j == IF i = 0 THEN Len(m) ELSE i
    IN  [m EXCEPT ![j].val =
            [@ EXCEPT !.impressions = @ + performance.impressions,
                      !.clicks = @ + performance.clicks,
                      !.conversions = @ + performance.conversions]]

DemographicAccZero ==
    [maleClicks |-> 0, maleSpend |-> DZero, maleRevenue |-> DZero,
     femaleClicks |-> 0, femaleSpend |-> DZero, femaleRevenue |-> DZero,
     ageGroupSpendMap |-> <<>>, ageGroupRevenueMap |-> <<>>,
     maleAgeGroupMap |-> <<>>, femaleAgeGroupMap |-> <<>>]

\* Mutant of FoldDemographic: the gender compared as it is written.
FoldDemographicCaseSensitive(acc, campaign, breakdown) ==
    LET age_group == breakdown.age_group
        performance == breakdown.performance
        allocated == Allocated(campaign, breakdown)
        allocatedSpend == allocated.spend
        allocatedRevenue == allocated.revenue
        byGender ==
            IF breakdown.gender = "male"
            THEN [acc EXCEPT
                    !.maleClicks = @ + performance.clicks,
                    !.maleSpend = DAdd(@, allocatedSpend),
                    !.maleRevenue = DAdd(@, allocatedRevenue),
                    !.maleAgeGroupMap = AddPerformance(@, age_group, performance)]
            ELSE IF breakdown.gender = "female"
            THEN [acc EXCEPT
                    !.femaleClicks = @ + performance.clicks,
                    !.femaleSpend = DAdd(@, allocatedSpend),
                    !.femaleRevenue = DAdd(@, allocatedRevenue),
                    !.femaleAgeGroupMap = AddPerformance(@, age_group, performance)]
            ELSE acc
    IN  [byGender EXCEPT
            !.ageGroupSpendMap =
                AddAmount(InitAmount(@, age_group), age_group, allocatedSpend),
            !.ageGroupRevenueMap =
                AddAmount(InitAmount(@, age_group), age_group, allocatedRevenue)]

\* One iteration of the inner forEach.
FoldDemographic(acc, campaign, breakdown) ==
    LET age_group == breakdown.age_group
        gender == ToLowerCase(breakdown.gender)
        performance == breakdown.performance
        allocated == Allocated(campaign, breakdown)
        allocatedSpend == allocated.spend
        allocatedRevenue == allocated.revenue
        byGender ==
            IF gender = "male"
            THEN [acc EXCEPT
                    !.maleClicks = @ + performance.clicks,
                    !.maleSpend = DAdd(@, allocatedSpend),
                    !.maleRevenue = DAdd(@, allocatedRevenue),
                    !.maleAgeGroupMap = AddPerformance(@, age_group, performance)]
            ELSE IF gender = "female"
            THEN [acc EXCEPT
                    !.femaleClicks = @ + performance.clicks,
                    !.femaleSpend = DAdd(@, allocatedSpend),
                    !.femaleRevenue = DAdd(@, allocatedRevenue),
                    !.femaleAgeGroupMap = AddPerformance(@, age_group, performance)]
            ELSE acc
    IN  [byGender EXCEPT
            !.ageGroupSpendMap =
                AddAmount(InitAmount(@, age_group), age_group, allocatedSpend),
            !.ageGroupRevenueMap =
                AddAmount(InitAmount(@, age_group), age_group, allocatedRevenue)]

\* Mutant of WithRates: the rates left as the map was initialized with.
WithRatesLeftZero(data) == data

\* data.ctr and data.conversion_rate from the final sums of an age group.
WithRates(data) ==
    [data EXCEPT !.ctr = Ctr(data.impressions, data.clicks),
                 !.conversion_rate = ConversionRate(data.clicks, data.conversions)]

\* Object.entries(map).map(([label, value]) => ({ label, value, color }))
AmountSeries(map, color) ==
    LET entries == ObjectEntries(map)
    IN  [i \in 1..Len(entries) |-> ChartPoint(entries[i].key, entries[i].val, color)]

\* Object.entries(map).map(([age_group, data]) => ({ age_group, ...data }))
AgeGroupRows(map) ==
    LET entries == ObjectEntries(map)
    IN  [i \in 1..Len(entries) |->
            LET data == WithRates(entries[i].val)
            IN  [age_group |-> entries[i].key,
                 impressions |-> data.impressions, clicks |-> data.clicks,
                 conversions |-> data.conversions,
                 ctr |-> data.ctr, conversion_rate |-> data.conversion_rate]]

\* The early return.
DemographicDefault ==
    [maleClicks |-> 0, maleSpend |-> DZero, maleRevenue |-> DZero,
     femaleClicks |-> 0, femaleSpend |-> DZero, femaleRevenue |-> DZero,
     ageGroupSpend |-> <<>>, ageGroupRevenue |-> <<>>,
     maleAgeGroups |-> <<>>, femaleAgeGroups |-> <<>>]

\* Everything after the loops: the rates, the arrays, the result.
DemographicResult(acc) ==
    [maleClicks |-> acc.maleClicks, maleSpend |-> acc.maleSpend,
     maleRevenue |-> acc.maleRevenue,
     femaleClicks |-> acc.femaleClicks, femaleSpend |-> acc.femaleSpend,
     femaleRevenue |-> acc.femaleRevenue,
     ageGroupSpend |-> AmountSeries(acc.ageGroupSpendMap, "#3B82F6"),
     ageGroupRevenue |-> AmountSeries(acc.ageGroupRevenueMap, "#10B981"),
     maleAgeGroups |-> AgeGroupRows(acc.maleAgeGroupMap),
     femaleAgeGroups |-> AgeGroupRows(acc.femaleAgeGroupMap)]

\* The whole loop over a campaign list.
RECURSIVE FoldDemographics(_, _, _)
FoldDemographics(campaigns, flat, n) ==
    IF n = 0 THEN DemographicAccZero
    ELSE FoldDemographic(FoldDemographics(campaigns, flat, n - 1),
                         campaigns[flat[n].campaign], flat[n].entry)

\* The useMemo callback as a function of its input.
DemographicMetricsOf(data) ==
    IF ~(data.loaded /\ data.hasCampaigns) THEN DemographicDefault
    ELSE LET flat == Flat(data.campaigns, "demographic_breakdown", 1)
         IN  DemographicResult(FoldDemographics(data.campaigns, flat, Len(flat)))

(* ------------------------------- state --------------------------------- *)
VARIABLES
    view,               \* the page that is mounted: one of Views
    marketingData,      \* useState: the dataset (NullData until loaded)
    error,              \* useState: <<>> for null, <<message>> otherwise
    loading,            \* useState: the loading flag
    selectedValueKey,   \* useState of the region view: "revenue" | "spend"
    alias,              \* for each object of the regional pass's map and of
                        \*   the weekly pass's map, in insertion order: <<>>
                        \*   or <<ref>> (object identity)
    rPc, rIdx,          \* regional pass: position, entries folded so far
    regionMap,          \* regional pass: the accumulator object
    rRecalc,            \* regional pass: <<key>> of the group whose derived
                        \*   metrics the latest step computed, else <<>>
    regionalMetrics,    \* the memoized result of the region view
    dPc, dIdx,          \* device pass: position, entries folded so far
    deviceAcc,          \* device pass: mobileData, desktopData, rows
    deviceMetrics,      \* the memoized result of the device view
    wPc, wIdx,          \* weekly pass: position, entries folded so far
    weeklyMap,          \* weekly pass: the accumulator object
    weeklyMetrics,      \* the memoized result of the weekly view
    gPc, gIdx,          \* demographic pass: position, entries folded so far
    demographicAcc,     \* demographic pass: the six totals and the four maps
    demographicMetrics, \* the memoized result of the demographic view
    wCharts,            \* weekly view, the points of the four line charts of
                        \*   the latest render, <<>> when it drew none
    wRender,            \* weekly view, outcome of the latest render: "loading",
                        \*   "ok", "threw", or "none" while a render is pending
    hLife,              \* heat map component: "unmounted", "mounted", "gone"
    isClient,           \* heat map, useState: set by the first effect
    mapLoaded,          \* heat map, useState
    hData,              \* heat map, props: data.length > 0
    container,          \* heat map, mapRef.current: 0 for null, else the
                        \*   number of the container element
    windowL,            \* window.L: the Leaflet script has loaded
    runs,               \* heat map, the runs of the main effect in order:
                        \*   isMounted and timer of the closure, the position
                        \*   of its initializeMap
    maps,               \* the Leaflet map instances that exist
    mapInstanceRef,     \* heat map, useRef: 0 for null, else the run whose
                        \*   map it holds
    markersRef          \* heat map, useRef: the marker list

\* Each page is a route of its own with its own state and its own fetch; one
\* page is mounted at a time.
Views == {"region", "device", "weekly", "demographic"}

fetchVars == <<view, marketingData, error, loading>>

regionVars == <<rPc, rIdx, regionMap, rRecalc, regionalMetrics>>

deviceVars == <<dPc, dIdx, deviceAcc, deviceMetrics>>

weeklyVars == <<wPc, wIdx, weeklyMap, weeklyMetrics, wRender, wCharts>>

demographicVars == <<gPc, gIdx, demographicAcc, demographicMetrics>>

heatVars == <<hLife, isClient, mapLoaded, hData, container, windowL, runs, maps,
              mapInstanceRef, markersRef>>

pageVars == <<fetchVars, selectedValueKey, alias, regionVars, deviceVars, weeklyVars,
              demographicVars>>

vars == <<pageVars, heatVars>>

\* The heat map before the region view renders it.
HeatInit ==
    /\ hLife = "unmounted"
    /\ isClient = FALSE /\ mapLoaded = FALSE
    /\ hData = FALSE /\ container = 0
    /\ windowL = FALSE
    /\ runs = <<>> /\ maps = {}
    /\ mapInstanceRef = 0 /\ markersRef = <<>>

\* The state after the first render: nothing loaded, every memo holds the
\* value computed from the null dataset.
Init ==
    /\ view \in Views
    /\ marketingData = NullData
    /\ error = <<>>
    /\ loading = TRUE
    /\ selectedValueKey = "revenue"
    /\ alias = [regional |-> <<>>, weekly |-> <<>>]
    /\ rPc = "idle" /\ rIdx = 0 /\ regionMap = <<>> /\ rRecalc = <<>>
    /\ regionalMetrics = RegionalMetricsOf(NullData, "revenue")
    /\ dPc = "idle" /\ dIdx = 0 /\ deviceAcc = DeviceAccZero
    /\ deviceMetrics = DeviceMetricsOf(NullData)
    /\ wPc = "idle" /\ wIdx = 0 /\ weeklyMap = <<>>
    /\ weeklyMetrics = WeeklyMetricsOf(NullData)
    /\ wRender = "loading" /\ wCharts = <<>>
    /\ gPc = "idle" /\ gIdx = 0 /\ demographicAcc = DemographicAccZero
    /\ demographicMetrics = DemographicMetricsOf(NullData)
    /\ HeatInit

(* ------------------------------ loadData ------------------------------- *)
\* try: setMarketingData(data); finally: setLoading(false).  The memos are
\* recomputed by the render that follows, which is pending.
FetchResolve(data) ==
    /\ loading
    /\ marketingData' = data
    /\ loading' = FALSE
    /\ rPc' = IF view = "region" THEN "start" ELSE rPc
    /\ dPc' = IF view = "device" THEN "start" ELSE dPc
    /\ wPc' = IF view = "weekly" THEN "start" ELSE wPc
    /\ gPc' = IF view = "demographic" THEN "start" ELSE gPc
    /\ wRender' = "none" /\ wCharts' = <<>>
    /\ UNCHANGED heatVars
    /\ UNCHANGED <<view, error, selectedValueKey, alias, rIdx, regionMap, rRecalc,
                   regionalMetrics, dIdx, deviceAcc, deviceMetrics, wIdx,
                   weeklyMap, weeklyMetrics, gIdx, demographicAcc,
                   demographicMetrics>>

\* loadData resolving with any dataset of a view: one without a campaign
\* list, or one with at most MaxCampaigns campaigns holding together at most
\* MaxEntries entries of the dimension dim, drawn from the set E.
LoadData(v, dim, E) ==
    /\ loading
    /\ view = v
    /\ \/ FetchResolve(NoCampaignsData)
       \/ \E n \in 0..MaxCampaigns : \E lens \in [1..n -> 0..MaxEntries] :
            /\ SumLens(lens, n) <= MaxEntries
            /\ \E s \in [1..SumLens(lens, n) -> E] :
                    FetchResolve(Loaded(CampaignList(dim, s, lens, n)))

\* What the awaited fetch can throw: an Error with a message, an Error
\* without one (new Error() has the message ""), or a value that is not an
\* Error.
Thrown ==
    { [isError |-> TRUE, message |-> "Network error"],
      [isError |-> TRUE, message |-> ""],
      [isError |-> FALSE, message |-> "timeout"] }

\* err instanceof Error ? err.message : 'Failed to load data'
ErrorMessage(err) == IF err.isError THEN err.message ELSE "Failed to load data"

\* catch: setError(message); finally: setLoading(false).
FetchReject ==
    /\ loading
    /\ \E err \in Thrown : error' = <<ErrorMessage(err)>>
    /\ loading' = FALSE
    /\ wRender' = "none" /\ wCharts' = <<>>
    /\ UNCHANGED heatVars
    /\ UNCHANGED <<view, marketingData, selectedValueKey, alias, regionVars,
                   deviceVars, wPc, wIdx, weeklyMap, weeklyMetrics,
                   demographicVars>>

(* ------------------------ regional pass, stepped ----------------------- *)
RegionalFlat == Flat(marketingData.campaigns, "regional_performance", 1)

\* Entry of the callback: the early return, or an empty regionMap.
RegionalStart ==
    /\ rPc = "start"
    /\ IF ~(marketingData.loaded /\ marketingData.hasCampaigns)
       THEN /\ regionalMetrics' = RegionalDefault
            /\ rPc' = "done"
            /\ UNCHANGED regionMap
       ELSE /\ regionMap' = <<>>
            /\ rPc' = "fold"
            /\ UNCHANGED regionalMetrics
    /\ rIdx' = 0
    /\ rRecalc' = <<>>
    /\ alias' = [alias EXCEPT !.regional = <<>>]
    /\ UNCHANGED heatVars
    /\ UNCHANGED <<fetchVars, selectedValueKey, deviceVars, weeklyVars,
                   demographicVars>>

\* One iteration of the inner forEach.
RegionalFold ==
    /\ rPc = "fold"
    /\ rIdx < Len(RegionalFlat)
    /\ LET item == RegionalFlat[rIdx + 1]
           region == item.entry
           i == MapIndex(regionMap, RegionKey(region))
           map == FoldRegion(regionMap, region)
           held == IF i = 0 THEN Spread(<<item.campaign, item.index>>)
                   ELSE alias.regional[i]
       IN  /\ regionMap' = map
           /\ rRecalc' = IF i = 0 THEN <<>> ELSE <<RegionKey(region)>>
           /\ alias' = IF i = 0 THEN [alias EXCEPT !.regional = Append(@, held)]
                       ELSE alias
           /\ marketingData' =
                 WriteThrough(marketingData, "regional_performance", held,
                              map[IF i = 0 THEN Len(map) ELSE i].val)
    /\ rIdx' = rIdx + 1
    /\ UNCHANGED heatVars
    /\ UNCHANGED <<rPc, regionalMetrics, view, error, loading,
                   selectedValueKey, deviceVars, weeklyVars,
                   demographicVars>>

\* After the loops: regionalData, totals, topRegion, the returned object.
RegionalFinish ==
    /\ rPc = "fold"
    /\ rIdx = Len(RegionalFlat)
    /\ regionalMetrics' = RegionalResult(regionMap, selectedValueKey)
    /\ rPc' = "done"
    /\ rRecalc' = <<>>
    /\ UNCHANGED heatVars
    /\ UNCHANGED <<rIdx, regionMap, fetchVars, selectedValueKey, alias,
                   deviceVars, weeklyVars,
                   demographicVars>>

\* A click on one of the two selector buttons, which are rendered with the
\* content area: setSelectedValueKey(valueKey).  A changed key is a changed
\* dependency of the memo, recomputed by the render that follows.
SetSelectedValueKey(valueKey) ==
    /\ view = "region"
    /\ ~loading /\ marketingData.loaded
    /\ rPc = "done"
    /\ valueKey # selectedValueKey
    /\ selectedValueKey' = valueKey
    /\ rPc' = "start"
    /\ UNCHANGED heatVars
    /\ UNCHANGED <<fetchVars, alias, rIdx, regionMap, rRecalc, regionalMetrics,
                   deviceVars, weeklyVars,
                   demographicVars>>

SelectValueKey == \E valueKey \in {"revenue", "spend"} : SetSelectedValueKey(valueKey)

\* loadData of this view resolving with one of its datasets.
RegionalLoadData == LoadData("region", "regional_performance", RegionalEntries)

NextRegional ==
    \/ RegionalLoadData
    \/ FetchReject
    \/ RegionalStart
    \/ RegionalFold
    \/ RegionalFinish
    \/ SelectValueKey

\* The region page mounted.
InitRegional == Init /\ view = "region"

SpecRegional == InitRegional /\ [][NextRegional]_vars

(* ------------------------- device pass, stepped ------------------------ *)
DeviceFlat == Flat(marketingData.campaigns, "device_performance", 1)

\* Entry of the callback: the early return, or zeroed buckets.
DeviceStart ==
    /\ dPc = "start"
    /\ IF ~(marketingData.loaded /\ marketingData.hasCampaigns)
       THEN /\ deviceMetrics' = DeviceDefault
            /\ dPc' = "done"
            /\ UNCHANGED deviceAcc
       ELSE /\ deviceAcc' = DeviceAccZero
            /\ dPc' = "fold"
            /\ UNCHANGED deviceMetrics
    /\ dIdx' = 0
    /\ UNCHANGED heatVars
    /\ UNCHANGED <<fetchVars, selectedValueKey, alias, regionVars, weeklyVars,
                   demographicVars>>

\* One iteration of the inner forEach.
DeviceFold ==
    /\ dPc = "fold"
    /\ dIdx < Len(DeviceFlat)
    /\ LET item == DeviceFlat[dIdx + 1]
       IN  deviceAcc' = FoldDevice(deviceAcc, marketingData.campaigns[item.campaign],
                                   item.entry)
    /\ dIdx' = dIdx + 1
    /\ UNCHANGED heatVars
    /\ UNCHANGED <<dPc, deviceMetrics, fetchVars, selectedValueKey, alias,
                   regionVars, weeklyVars,
                   demographicVars>>

\* After the loops: derived metrics, chart series, the returned object.
DeviceFinish ==
    /\ dPc = "fold"
    /\ dIdx = Len(DeviceFlat)
    /\ deviceMetrics' = DeviceResult(deviceAcc)
    /\ dPc' = "done"
    /\ UNCHANGED heatVars
    /\ UNCHANGED <<dIdx, deviceAcc, fetchVars, selectedValueKey, alias,
                   regionVars, weeklyVars,
                   demographicVars>>

\* loadData of this view resolving with one of its datasets.
DeviceLoadData == LoadData("device", "device_performance", DeviceEntries)

NextDevice ==
    \/ DeviceLoadData
    \/ FetchReject
    \/ DeviceStart
    \/ DeviceFold
    \/ DeviceFinish

\* The device page mounted.
InitDevice == Init /\ view = "device"

SpecDevice == InitDevice /\ [][NextDevice]_vars

(* ------------------------- weekly pass, stepped ------------------------ *)
WeeklyFlat == Flat(marketingData.campaigns, "weekly_performance", 1)

\* Entry of the callback: the early return, or an empty weeklyMap.
WeeklyStart ==
    /\ wPc = "start"
    /\ IF ~(marketingData.loaded /\ marketingData.hasCampaigns)
       THEN /\ weeklyMetrics' = WeeklyDefault
            /\ wPc' = "done"
            /\ UNCHANGED weeklyMap
       ELSE /\ weeklyMap' = <<>>
            /\ wPc' = "fold"
            /\ UNCHANGED weeklyMetrics
    /\ wIdx' = 0
    /\ alias' = [alias EXCEPT !.weekly = <<>>]
    /\ UNCHANGED heatVars
    /\ UNCHANGED <<wRender, wCharts, fetchVars, selectedValueKey, regionVars,
                   deviceVars,
                   demographicVars>>

\* One iteration of the inner forEach.
WeeklyFold ==
    /\ wPc = "fold"
    /\ wIdx < Len(WeeklyFlat)
    /\ LET item == WeeklyFlat[wIdx + 1]
           i == MapIndex(weeklyMap, WeekKey(item.entry))
           map == FoldWeek(weeklyMap, item.entry)
           held == IF i = 0 THEN Spread(<<item.campaign, item.index>>)
                   ELSE alias.weekly[i]
       IN  /\ weeklyMap' = map
           /\ alias' = IF i = 0 THEN [alias EXCEPT !.weekly = Append(@, held)]
                       ELSE alias
           /\ marketingData' =
                 WriteThrough(marketingData, "weekly_performance", held,
                              map[IF i = 0 THEN Len(map) ELSE i].val)
    /\ wIdx' = wIdx + 1
    /\ UNCHANGED heatVars
    /\ UNCHANGED <<wPc, weeklyMetrics, wRender, wCharts, view, error, loading,
                   selectedValueKey, regionVars, deviceVars,
                   demographicVars>>

\* After the loops: sort, totals, chart series, the returned object.
WeeklyFinish ==
    /\ wPc = "fold"
    /\ wIdx = Len(WeeklyFlat)
    /\ weeklyMetrics' = WeeklyResult(weeklyMap)
    /\ wPc' = "done"
    /\ UNCHANGED heatVars
    /\ UNCHANGED <<wIdx, weeklyMap, wRender, wCharts, fetchVars, selectedValueKey,
                   alias, regionVars, deviceVars,
                   demographicVars>>

\* The JSX of the weekly view, once the memo is computed: the loading
\* screen, or the page, whose content area is rendered only for a non-null
\* marketingData and reads weeklyMetrics.weeklyData.length.
WeeklyRender ==
    /\ view = "weekly"
    /\ wPc \in {"idle", "done"}
    /\ wRender = "none"
    /\ wRender' = IF loading THEN "loading"
                  ELSE IF marketingData.loaded /\ WeeklyContentThrows(weeklyMetrics)
                       THEN "threw" ELSE "ok"
    /\ wCharts' = IF ~loading /\ marketingData.loaded
                     /\ ~WeeklyContentThrows(weeklyMetrics)
                  THEN WeeklyCharts(weeklyMetrics) ELSE <<>>
    /\ UNCHANGED heatVars
    /\ UNCHANGED <<wPc, wIdx, weeklyMap, weeklyMetrics, fetchVars,
                   selectedValueKey, alias, regionVars, deviceVars,
                   demographicVars>>

\* loadData of this view resolving with one of its datasets.
WeeklyLoadData == LoadData("weekly", "weekly_performance", WeeklyEntries)

NextWeekly ==
    \/ WeeklyLoadData
    \/ FetchReject
    \/ WeeklyStart
    \/ WeeklyFold
    \/ WeeklyFinish
    \/ WeeklyRender

\* The weekly page mounted.
InitWeekly == Init /\ view = "weekly"

SpecWeekly == InitWeekly /\ [][NextWeekly]_vars

(* ---------------------- demographic pass, stepped --------------------- *)
DemographicFlat == Flat(marketingData.campaigns, "demographic_breakdown", 1)

\* Entry of the callback: the early return, or zeroed totals and empty maps.
DemographicStart ==
    /\ gPc = "start"
    /\ IF ~(marketingData.loaded /\ marketingData.hasCampaigns)
       THEN /\ demographicMetrics' = DemographicDefault
            /\ gPc' = "done"
            /\ UNCHANGED demographicAcc
       ELSE /\ demographicAcc' = DemographicAccZero
            /\ gPc' = "fold"
            /\ UNCHANGED demographicMetrics
    /\ gIdx' = 0
    /\ UNCHANGED heatVars
    /\ UNCHANGED <<fetchVars, selectedValueKey, alias, regionVars, deviceVars,
                   weeklyVars>>

\* One iteration of the inner forEach.
DemographicFold ==
    /\ gPc = "fold"
    /\ gIdx < Len(DemographicFlat)
    /\ LET item == DemographicFlat[gIdx + 1]
       IN  demographicAcc' =
               FoldDemographic(demographicAcc,
                               marketingData.campaigns[item.campaign], item.entry)
    /\ gIdx' = gIdx + 1
    /\ UNCHANGED heatVars
    /\ UNCHANGED <<gPc, demographicMetrics, fetchVars, selectedValueKey, alias,
                   regionVars, deviceVars, weeklyVars>>

\* After the loops: rates, arrays, the returned object.
DemographicFinish ==
    /\ gPc = "fold"
    /\ gIdx = Len(DemographicFlat)
    /\ demographicMetrics' = DemographicResult(demographicAcc)
    /\ gPc' = "done"
    /\ UNCHANGED heatVars
    /\ UNCHANGED <<gIdx, demographicAcc, fetchVars, selectedValueKey, alias,
                   regionVars, deviceVars, weeklyVars>>

\* loadData of this view resolving with one of its datasets.
DemographicLoadData ==
    LoadData("demographic", "demographic_breakdown", DemographicEntries)

NextDemographic ==
    \/ DemographicLoadData
    \/ FetchReject
    \/ DemographicStart
    \/ DemographicFold
    \/ DemographicFinish

\* The demographic page mounted.
InitDemographic == Init /\ view = "demographic"

SpecDemographic == InitDemographic /\ [][NextDemographic]_vars

(* ------------------------------ every page ----------------------------- *)
\* The application: whichever page is mounted fetches and aggregates.
Next ==
    \/ NextRegional
    \/ NextDevice
    \/ NextWeekly
    \/ NextDemographic

Spec == Init /\ [][Next]_vars

(* ---------------------- one dataset, four callbacks -------------------- *)
\* The four useMemo callbacks handed one and the same dataset object, as
\* when the fetch layer serves every page the object it has cached, with
\* the steps of the four passes taken in any order.  No page of the
\* repository mounts them together; this is the setting in which their
\* independence can be observed.
Dimensions ==
    {"regional_performance", "device_performance", "weekly_performance",
     "demographic_breakdown"}

SharedEntry(dim) ==
    CASE dim = "regional_performance" ->
             RegionalEntry("Dubai", "UAE", CountersA, StaleDerived)
      [] dim = "device_performance" ->
             DeviceEntry("Mobile", CountersA, FreshDerived(CountersA))
      [] dim = "weekly_performance" ->
             WeeklyEntry("2024-02-01", "2024-02-07", CountersB)
      [] dim = "demographic_breakdown" ->
             DemographicEntry("25-34", "Male", 60, Performance(1000, 50, 5))

\* Campaign c with one entry of each dimension of dims.
SharedCampaign(c, dims) ==
    [name |-> "Campaign " \o ToString(c),
     spend |-> CampaignSpend(c), revenue |-> CampaignRevenue(c),
     regional_performance |->
         IF "regional_performance" \in dims
         THEN <<SharedEntry("regional_performance")>> ELSE <<>>,
     device_performance |->
         IF "device_performance" \in dims
         THEN <<SharedEntry("device_performance")>> ELSE <<>>,
     weekly_performance |->
         IF "weekly_performance" \in dims
         THEN <<SharedEntry("weekly_performance")>> ELSE <<>>,
     demographic_breakdown |->
         IF "demographic_breakdown" \in dims
         THEN <<SharedEntry("demographic_breakdown")>> ELSE <<>>]

\* A campaign carries one entry of every dimension, of one dimension, or
\* no entry.
SharedShapes == {Dimensions, {}} \cup { {dim} : dim \in Dimensions }

\* The fetch resolving once for all four callbacks: every memo is due.
SharedLoadData ==
    /\ loading
    /\ view = "shared"
    /\ \E n \in 0..MaxCampaigns : \E shape \in [1..n -> SharedShapes] :
          marketingData' = Loaded([c \in 1..n |-> SharedCampaign(c, shape[c])])
    /\ loading' = FALSE
    /\ rPc' = "start" /\ dPc' = "start" /\ wPc' = "start" /\ gPc' = "start"
    /\ wRender' = "none" /\ wCharts' = <<>>
    /\ UNCHANGED heatVars
    /\ UNCHANGED <<view, error, selectedValueKey, alias, rIdx, regionMap, rRecalc,
                   regionalMetrics, dIdx, deviceAcc, deviceMetrics, wIdx,
                   weeklyMap, weeklyMetrics, gIdx, demographicAcc,
                   demographicMetrics>>

NextShared ==
    \/ SharedLoadData
    \/ RegionalStart
    \/ RegionalFold
    \/ RegionalFinish
    \/ DeviceStart
    \/ DeviceFold
    \/ DeviceFinish
    \/ WeeklyStart
    \/ WeeklyFold
    \/ WeeklyFinish
    \/ DemographicStart
    \/ DemographicFold
    \/ DemographicFinish

\* The state before the fetch settles, as Init, with no page singled out.
InitShared ==
    /\ view = "shared"
    /\ marketingData = NullData
    /\ error = <<>>
    /\ loading = TRUE
    /\ selectedValueKey = "revenue"
    /\ alias = [regional |-> <<>>, weekly |-> <<>>]
    /\ rPc = "idle" /\ rIdx = 0 /\ regionMap = <<>> /\ rRecalc = <<>>
    /\ regionalMetrics = RegionalMetricsOf(NullData, "revenue")
    /\ dPc = "idle" /\ dIdx = 0 /\ deviceAcc = DeviceAccZero
    /\ deviceMetrics = DeviceMetricsOf(NullData)
    /\ wPc = "idle" /\ wIdx = 0 /\ weeklyMap = <<>>
    /\ weeklyMetrics = WeeklyMetricsOf(NullData)
    /\ wRender = "loading" /\ wCharts = <<>>
    /\ gPc = "idle" /\ gIdx = 0 /\ demographicAcc = DemographicAccZero
    /\ demographicMetrics = DemographicMetricsOf(NullData)
    /\ HeatInit

SpecShared == InitShared /\ [][NextShared]_vars

(* ------------------------------ heat map ------------------------------- *)
\* The HeatMap component on its own: its props change as the region view
\* re-renders it, its timers and script loads complete in any order.  The
\* commit of a render and the effects it schedules are one step.
MaxEffects == 3

\* The closure of one run of the main effect that got past the early
\* return: let isMounted = true, the timer set, initializeMap not started.
NewRun ==
    [isMounted |-> TRUE, timer |-> "pending", pc |-> "timer",
     created |-> FALSE, cleanedEarly |-> FALSE]

\* The run whose cleanup has not run, 0 when there is none.
LiveRun ==
    IF \E i \in 1..Len(runs) : runs[i].isMounted
    THEN CHOOSE i \in 1..Len(runs) : runs[i].isMounted
    ELSE 0

\* mapRef.current._leaflet_id of the container c: a map instance is
\* attached to it.
LeafletId(ms, c) == \E m \in ms : m.container = c

\* cleanupMap(): the refs and the state it leaves, given the maps that
\* exist and the map instance reference.
CleanupMap(ms, ref) ==
    [maps |-> { m \in ms : m.run # ref }, mapInstanceRef |-> 0,
     markersRef |-> <<>>, mapLoaded |-> FALSE]

\* The cleanup function of the live run i: isMounted = false,
\* clearTimeout(timer); a run of 0 has nothing to clean.
CleanedUp(rs, i) ==
    IF i = 0 THEN rs
    ELSE [rs EXCEPT ![i].isMounted = FALSE,
                    ![i].timer = IF @ = "pending" THEN "cleared" ELSE @,
                    ![i].cleanedEarly = rs[i].pc # "done"]

\* Mutant of MayCreate: the guard without isMounted.
MayCreateUnmounted(run, c) == c # 0

\* if (!isMounted || !mapRef.current) return;
MayCreate(run, c) == run.isMounted /\ c # 0

\* The part of initializeMap after the script is there, run by i, on the
\* maps ms with the reference ref, the markers mk and the flag loaded: the
\* two early returns, or L.map(...), the markers and setMapLoaded(true).
Initialize(i, ms, ref, mk, loaded) ==
    IF MayCreate(runs[i], container) /\ ~LeafletId(ms, container)
    THEN [maps |-> ms \cup {[run |-> i, container |-> container]},
          mapInstanceRef |-> i, markersRef |-> <<"circle">>,
          mapLoaded |-> TRUE, created |-> TRUE]
    ELSE [maps |-> ms, mapInstanceRef |-> ref, markersRef |-> mk,
          mapLoaded |-> loaded, created |-> FALSE]

\* A commit of the component in which the dependencies of the main effect
\* changed: the cleanup of the live run, then the effect, which returns
\* early unless the client flag is set and the container and data exist.
Commit(client, data, life) ==
    LET live == LiveRun
        cleaned == IF live = 0
                   THEN [maps |-> maps, mapInstanceRef |-> mapInstanceRef,
                         markersRef |-> markersRef, mapLoaded |-> mapLoaded]
                   ELSE CleanupMap(maps, mapInstanceRef)
        kept == container # 0 /\ life = "mounted" /\ client /\ data
        c == IF life = "mounted" /\ client /\ data
             THEN (IF kept THEN container ELSE Len(runs) + 1) ELSE 0
        starts == life = "mounted" /\ client /\ c # 0 /\ data
    IN  /\ starts => Len(runs) < MaxEffects
        /\ hLife' = life
        /\ isClient' = client
        /\ hData' = data
        /\ container' = c
        /\ runs' = IF starts THEN Append(CleanedUp(runs, live), NewRun)
                   ELSE CleanedUp(runs, live)
        /\ maps' = cleaned.maps
        /\ mapInstanceRef' = cleaned.mapInstanceRef
        /\ markersRef' = cleaned.markersRef
        /\ mapLoaded' = cleaned.mapLoaded
        /\ UNCHANGED windowL
        /\ UNCHANGED pageVars

\* The region view renders the HeatMap: the first render, isClient false.
HeatMount ==
    /\ hLife = "unmounted"
    /\ \E data \in BOOLEAN : Commit(FALSE, data, "mounted")

\* The first effect: setIsClient(true), and the render that follows.
SetIsClient ==
    /\ hLife = "mounted"
    /\ ~isClient
    /\ Commit(TRUE, hData, "mounted")

\* A render with a new data array or another valueKey.
PropsChange ==
    /\ hLife = "mounted"
    /\ \E data \in BOOLEAN : Commit(isClient, data, "mounted")

\* The component is removed.
Unmount ==
    /\ hLife = "mounted"
    /\ Commit(isClient, hData, "gone")

\* The 100 ms timer of run i fires: initializeMap() up to its await, or to
\* its end when window.L is there already.
TimerFires ==
    \E i \in 1..Len(runs) :
        /\ runs[i].timer = "pending"
        /\ LET cleaned == CleanupMap(maps, mapInstanceRef)
               done == Initialize(i, cleaned.maps, cleaned.mapInstanceRef,
                                  cleaned.markersRef, cleaned.mapLoaded)
           IN  IF windowL
               THEN /\ runs' = [runs EXCEPT ![i].timer = "fired", ![i].pc = "done",
                                            ![i].created = done.created]
                    /\ maps' = done.maps
                    /\ mapInstanceRef' = done.mapInstanceRef
                    /\ markersRef' = done.markersRef
                    /\ mapLoaded' = done.mapLoaded
               ELSE /\ runs' = [runs EXCEPT ![i].timer = "fired", ![i].pc = "script"]
                    /\ maps' = cleaned.maps
                    /\ mapInstanceRef' = cleaned.mapInstanceRef
                    /\ markersRef' = cleaned.markersRef
                    /\ mapLoaded' = cleaned.mapLoaded
        /\ UNCHANGED <<hLife, isClient, hData, container, windowL>>
        /\ UNCHANGED pageVars

\* The script element of run i loads: window.L is set and the awaited
\* promise resolves.
ScriptLoads ==
    \E i \in 1..Len(runs) :
        /\ runs[i].pc = "script"
        /\ LET done == Initialize(i, maps, mapInstanceRef, markersRef, mapLoaded)
           IN  /\ runs' = [runs EXCEPT ![i].pc = "done", ![i].created = done.created]
               /\ maps' = done.maps
               /\ mapInstanceRef' = done.mapInstanceRef
               /\ markersRef' = done.markersRef
               /\ mapLoaded' = done.mapLoaded
        /\ windowL' = TRUE
        /\ UNCHANGED <<hLife, isClient, hData, container>>
        /\ UNCHANGED pageVars

\* The script element of run i fails to load: the promise rejects, and the
\* catch calls setMapLoaded(false) if the run is still mounted.
ScriptFails ==
    \E i \in 1..Len(runs) :
        /\ runs[i].pc = "script"
        /\ runs' = [runs EXCEPT ![i].pc = "done"]
        /\ mapLoaded' = IF runs[i].isMounted THEN FALSE ELSE mapLoaded
        /\ UNCHANGED <<hLife, isClient, hData, container, windowL, maps,
                       mapInstanceRef, markersRef>>
        /\ UNCHANGED pageVars

NextHeatMap ==
    \/ HeatMount
    \/ SetIsClient
    \/ PropsChange
    \/ Unmount
    \/ TimerFires
    \/ ScriptLoads
    \/ ScriptFails

\* The region view before it renders the heat map.
InitHeatMap == Init /\ view = "region"

SpecHeatMap == InitHeatMap /\ [][NextHeatMap]_vars

(* ========================= properties: regional ======================== *)
RegionalDone == rPc = "done" /\ marketingData.loaded /\ marketingData.hasCampaigns

DerivedFromSums(g) ==
    /\ g.ctr = Ctr(g.impressions, g.clicks)
    /\ g.conversion_rate = ConversionRate(g.clicks, g.conversions)
    /\ g.cpc = Cpc(g.spend, g.clicks)
    /\ g.cpa = Cpa(g.spend, g.conversions)
    /\ g.roas = Roas(g.spend, g.revenue)

\* C1: every group the regional aggregator emits, a group built from one
\* entry included, carries ctr, conversion_rate, cpc, cpa and roas equal to
\* the zero-guarded formulas of its final summed counters, whatever derived
\* values the input entries carried.
C1_DerivedRecomputedFromFinalSums ==
    RegionalDone =>
        \A i \in 1..Len(regionalMetrics.regionalData) :
            DerivedFromSums(regionalMetrics.regionalData[i])

BaseCounters == {"impressions", "clicks", "conversions", "spend", "revenue"}

\* The counter f of the (region, country) group of a result, 0 when the
\* result has no such group.
RECURSIVE GroupCounter(_, _, _, _, _)
GroupCounter(data, region, country, f, n) ==
    IF n = 0 THEN 0
    ELSE GroupCounter(data, region, country, f, n - 1)
         + (IF data[n].region = region /\ data[n].country = country
            THEN data[n][f] ELSE 0)

RegionPairs == { <<e.region, e.country>> : e \in RegionalEntries }

\* C2: for two campaigns A and B, every base counter of every group of the
\* result for [A, B] is the sum of that group's counter in the result for
\* [A] and in the result for [B], a missing group counting as 0 (groups
\* being identified by their (region, country) pair).
C2_RegionalAdditivity ==
    (RegionalDone /\ Len(marketingData.campaigns) = 2) =>
        LET ab == regionalMetrics.regionalData
            a == RegionalMetricsOf(Loaded(<<marketingData.campaigns[1]>>),
                                   selectedValueKey).regionalData
            b == RegionalMetricsOf(Loaded(<<marketingData.campaigns[2]>>),
                                   selectedValueKey).regionalData
        IN  \A p \in RegionPairs : \A f \in BaseCounters :
                GroupCounter(ab, p[1], p[2], f, Len(ab))
                    = GroupCounter(a, p[1], p[2], f, Len(a))
                      + GroupCounter(b, p[1], p[2], f, Len(b))

\* C3: in the regional output a group with impressions = 0 has ctr = 0, a
\* group with clicks = 0 has conversion_rate = 0 and cpc = 0, a group with
\* spend = 0 has roas = 0 and a group with conversions = 0 has cpa = 0.
C3_RegionalZeroGuard ==
    RegionalDone =>
        \A i \in 1..Len(regionalMetrics.regionalData) :
            LET g == regionalMetrics.regionalData[i]
            IN  /\ g.impressions = 0 => g.ctr = Num(0)
                /\ g.clicks = 0 => (g.conversion_rate = Num(0) /\ g.cpc = Num(0))
                /\ g.spend = 0 => g.roas = Num(0)
                /\ g.conversions = 0 => g.cpa = Num(0)

\* C4: two regional entries are folded into one group only if both their
\* region and their country are equal.
C4_MergedOnlyOnEqualPair ==
    (rPc \in {"fold", "done"} /\ marketingData.hasCampaigns) =>
        \A m, n \in 1..rIdx :
            LET x == RegionalFlat[m].entry
                y == RegionalFlat[n].entry
            IN  MapIndex(regionMap, RegionKey(x)) = MapIndex(regionMap, RegionKey(y))
                    => (x.region = y.region /\ x.country = y.country)

\* C8: no derived rate metric of a group is computed while entries of that
\* group remain unfolded.
C8_DerivedOnlyAfterLastEntry ==
    rRecalc # <<>> =>
        \A m \in (rIdx + 1)..Len(RegionalFlat) :
            RegionKey(RegionalFlat[m].entry) # rRecalc[1]

\* The position in input order at which the key of group g first occurs.
FirstEncounter(g) ==
    CHOOSE m \in 1..Len(RegionalFlat) :
        /\ RegionKey(RegionalFlat[m].entry) = RegionKey(g)
        /\ \A n \in 1..(m - 1) : RegionKey(RegionalFlat[n].entry) # RegionKey(g)

\* g has the maximum revenue, and of the groups sharing it g is the one
\* whose key was encountered first.
IsFirstMaxRevenue(g, data) ==
    /\ \E i \in 1..Len(data) : data[i] = g
    /\ \A i \in 1..Len(data) :
          /\ data[i].revenue <= g.revenue
          /\ (data[i].revenue = g.revenue /\ data[i] # g)
                => FirstEncounter(g) < FirstEncounter(data[i])

\* C9 as stated: whenever there are groups, the top region is the group of
\* maximum revenue whose key was first encountered.
C9_TopRegionIsFirstMax ==
    (RegionalDone /\ regionalMetrics.regionalData # <<>>) =>
        /\ regionalMetrics.topRegion # Null
        /\ IsFirstMaxRevenue(regionalMetrics.topRegion, regionalMetrics.regionalData)

\* C9, amended: whenever some group has revenue > 0, the top region is the
\* group of maximum revenue whose key was first encountered in input order
\* (when no group has positive revenue the top region is null).
C9_TopRegionIsFirstPositiveMax ==
    RegionalDone =>
        LET data == regionalMetrics.regionalData
        IN  IF \E i \in 1..Len(data) : data[i].revenue > 0
            THEN /\ regionalMetrics.topRegion # Null
                 /\ IsFirstMaxRevenue(regionalMetrics.topRegion, data)
            ELSE regionalMetrics.topRegion = Null

\* Two groups tie on a positive maximum revenue and the first is reported.
C9_Witness ==
    /\ RegionalDone
    /\ LET data == regionalMetrics.regionalData
       IN  /\ Len(data) >= 2
           /\ data[1].revenue > 0
           /\ data[2].revenue = data[1].revenue
           /\ regionalMetrics.topRegion = data[1]

(* ========================== properties: device ========================= *)
DeviceDone == dPc = "done" /\ marketingData.loaded /\ marketingData.hasCampaigns

\* C5: for a present campaign list of length zero the device aggregator
\* returns what it returns for an absent dataset: buckets whose numeric
\* fields, percentage_of_traffic included, are all 0, and empty chart and
\* row collections.
C5_EmptyListLikeAbsent ==
    (DeviceDone /\ marketingData.campaigns = <<>>) => deviceMetrics = DeviceDefault

NoTraffic == deviceMetrics.mobile.impressions + deviceMetrics.desktop.impressions = 0

\* C6 as stated: with a campaign list present and no Mobile or Desktop
\* impressions, percentage_of_traffic of both buckets is NaN while ctr and
\* conversion_rate of both buckets are 0.
C6_NoTrafficNaNAndZeroRates ==
    (DeviceDone /\ NoTraffic) =>
        \A b \in {deviceMetrics.mobile, deviceMetrics.desktop} :
            /\ b.percentage_of_traffic = DNaN
            /\ b.ctr = Num(0)
            /\ b.conversion_rate = Num(0)

\* C6, amended: with a campaign list present and no Mobile or Desktop
\* impressions, percentage_of_traffic of both buckets is NaN (not 0) and ctr
\* of both buckets is 0; conversion_rate of a bucket is 0 when the bucket has
\* no clicks and conversions / clicks * 100 otherwise.
C6_NoTrafficNaNShare ==
    (DeviceDone /\ NoTraffic) =>
        \A b \in {deviceMetrics.mobile, deviceMetrics.desktop} :
            /\ b.percentage_of_traffic = DNaN
            /\ b.percentage_of_traffic # DZero
            /\ b.ctr = Num(0)
            /\ b.conversion_rate =
                  (IF b.clicks = 0 THEN Num(0) ELSE Times100(Div(b.conversions, b.clicks)))

\* Entries were folded, none brought impressions, one bucket has clicks.
C6_Witness ==
    /\ DeviceDone
    /\ NoTraffic
    /\ deviceMetrics.mobile.campaignCount > 0
    /\ deviceMetrics.desktop.campaignCount > 0
    /\ deviceMetrics.mobile.clicks > 0
    /\ deviceMetrics.mobile.percentage_of_traffic = DNaN
    /\ deviceMetrics.desktop.percentage_of_traffic = DNaN

\* The campaign list without the entry at position m of the device scan.
WithoutDeviceEntry(campaigns, m) ==
    LET item == Flat(campaigns, "device_performance", 1)[m]
        old == campaigns[item.campaign].device_performance
    IN  [campaigns EXCEPT ![item.campaign].device_performance =
            SubSeq(old, 1, item.index - 1) \o SubSeq(old, item.index + 1, Len(old))]

\* C10: a device entry whose label is neither exactly "Mobile" nor exactly
\* "Desktop" leaves every field of both buckets as it is for the dataset
\* with that entry removed.
C10_OtherLabelChangesNoBucket ==
    DeviceDone =>
        \A m \in 1..Len(DeviceFlat) :
            DeviceFlat[m].entry.device \notin {"Mobile", "Desktop"} =>
                LET without == DeviceMetricsOf(
                        Loaded(WithoutDeviceEntry(marketingData.campaigns, m)))
                IN  /\ deviceMetrics.mobile = without.mobile
                    /\ deviceMetrics.desktop = without.desktop

\* A "Tablet" and a "mobile" entry were scanned along with a Mobile one that
\* brought impressions.
C10_Witness ==
    /\ DeviceDone
    /\ \E m \in 1..Len(DeviceFlat) : DeviceFlat[m].entry.device = "Tablet"
    /\ \E m \in 1..Len(DeviceFlat) : DeviceFlat[m].entry.device = "mobile"
    /\ deviceMetrics.mobile.impressions > 0
    /\ deviceMetrics.mobile.campaignCount = 1
    /\ deviceMetrics.desktop.campaignCount = 0

(* ========================== properties: weekly ========================= *)
\* C7: when the dataset is loaded without a campaign list, the weekly
\* result holds an empty collection of weekly groups and all-zero totals,
\* and the view's reads of it (the length of the group collection
\* included) do not throw.
C7_NoCampaignListRendersEmpty ==
    (marketingData = NoCampaignsData /\ wPc = "done" /\ wRender # "none") =>
        /\ Totals(<<>>) = [f \in DOMAIN Totals(<<>>) |-> weeklyMetrics[f]]
        /\ wRender # "threw"
        /\ "weeklyData" \in DOMAIN weeklyMetrics
        /\ weeklyMetrics.weeklyData = <<>>

(* ------------------------------- weekly -------------------------------- *)
WeeklyDone == wPc = "done" /\ marketingData.loaded /\ marketingData.hasCampaigns

\* The chart series of the weekly result and the field each one plots.
WeeklySeriesFields ==
    { <<"revenueByWeek", "revenue">>, <<"spendByWeek", "spend">>,
      <<"impressionsByWeek", "impressions">>, <<"clicksByWeek", "clicks">> }

\* C11: whatever order the entries arrive in, the weekly group collection is
\* ordered by non-decreasing week_start date, and each of the four chart
\* series has the length of the group collection and, position by position,
\* the label and the value of the group at that position.
C11_WeeklySortedAndSeriesAligned ==
    WeeklyDone =>
        LET weeklyData == weeklyMetrics.weeklyData
        IN  /\ \A i, j \in 1..Len(weeklyData) :
                  i < j => GetTime(weeklyData[i].week_start)
                             <= GetTime(weeklyData[j].week_start)
            /\ \A sf \in WeeklySeriesFields :
                  LET series == weeklyMetrics[sf[1]]
                  IN  /\ Len(series) = Len(weeklyData)
                      /\ \A i \in 1..Len(weeklyData) :
                            /\ series[i].value = weeklyData[i][sf[2]]
                            /\ series[i].label =
                                 "Week " \o ShortDate(weeklyData[i].week_start)

\* Three weeks arriving February, January, March come out January,
\* February, March, the series with them.
C11_Witness ==
    /\ WeeklyDone
    /\ Len(WeeklyFlat) = 3
    /\ [i \in 1..3 |-> WeeklyFlat[i].entry.week_start]
         = <<"2024-02-01", "2024-01-01", "2024-03-01">>
    /\ [i \in 1..3 |-> weeklyMetrics.weeklyData[i].week_start]
         = <<"2024-01-01", "2024-02-01", "2024-03-01">>
    /\ [i \in 1..3 |-> weeklyMetrics.revenueByWeek[i].label]
         = <<"Week Jan 1", "Week Feb 1", "Week Mar 1">>

(* ---------------------------- conservation ----------------------------- *)
\* The sum of the counter f over the entries a pass visits.
RECURSIVE EntrySum(_, _, _)
EntrySum(flat, f, n) ==
    IF n = 0 THEN 0 ELSE EntrySum(flat, f, n - 1) + flat[n].entry[f]

\* The grand totals of a result and the counter each one accumulates.
TotalFields ==
    { <<"totalRevenue", "revenue">>, <<"totalSpend", "spend">>,
      <<"totalImpressions", "impressions">>, <<"totalClicks", "clicks">>,
      <<"totalConversions", "conversions">> }

\* The totals of a result are the sums over its groups and the sums over
\* the entries the pass visited.
Conserved(metrics, groups, flat) ==
    \A tf \in TotalFields :
        /\ metrics[tf[1]] = SumField(groups, tf[2], Len(groups))
        /\ metrics[tf[1]] = EntrySum(flat, tf[2], Len(flat))

TwoDubaiCampaigns ==
    /\ Len(marketingData.campaigns) = 2
    /\ \A c \in 1..2 : Len(marketingData.campaigns[c].regional_performance) = 1
    /\ \A c \in 1..2 :
          LET e == marketingData.campaigns[c].regional_performance[1]
          IN  e.region = "Dubai" /\ e.country = "UAE"
    /\ { [f \in BaseCounters |->
             marketingData.campaigns[c].regional_performance[1][f]] : c \in 1..2 }
         = { CountersA, CountersB }

\* C14: for that dataset the regional result has exactly one group, with
\* impressions 3000, clicks 150, conversions 15, spend 300, revenue 900,
\* ctr 5, conversion_rate 10, cpc 2, cpa 20, roas 3 and campaignCount 2.
C14_DubaiExample ==
    (RegionalDone /\ TwoDubaiCampaigns) =>
        /\ Len(regionalMetrics.regionalData) = 1
        /\ LET g == regionalMetrics.regionalData[1]
           IN  /\ g.region = "Dubai" /\ g.country = "UAE"
               /\ g.impressions = 3000 /\ g.clicks = 150 /\ g.conversions = 15
               /\ g.spend = 300 /\ g.revenue = 900
               /\ g.ctr = Num(5) /\ g.conversion_rate = Num(10)
               /\ g.cpc = Num(2) /\ g.cpa = Num(20) /\ g.roas = Num(3)
               /\ g.campaignCount = 2

\* The example computed, the second entry storing derived values that
\* disagree with its counters.
C14_Witness ==
    /\ RegionalDone /\ TwoDubaiCampaigns
    /\ marketingData.campaigns[1].regional_performance[1].impressions = 1000
    /\ marketingData.campaigns[2].regional_performance[1].ctr = Num(7)
    /\ regionalMetrics.regionalData[1].ctr = Num(5)

(* ------------------------ the dataset is read only --------------------- *)
\* C15: no step of any aggregation pass modifies the dataset: once loaded,
\* marketingData, every campaign and every breakdown entry in it, the
\* entries that were the first of their group included, stays as it is
\* whatever pass runs and however often it runs.
C15_PassesLeaveInputUnmodified ==
    [][~loading => marketingData' = marketingData]_vars

\* A regional pass has run a second time, after a switch of the selector,
\* and merged a later entry into the group its first entry created: the
\* group holds the sum, the first entry what it held.
C15_Witness ==
    /\ RegionalDone
    /\ selectedValueKey = "spend"
    /\ Len(RegionalFlat) >= 2
    /\ regionalMetrics.regionalData[1].campaignCount = 2
    /\ regionalMetrics.regionalData[1].impressions = 3000
    /\ RegionalFlat[1].entry.impressions = 1000

(* ----------------------------- the selector ---------------------------- *)
\* A group, and a regional result, without the selected values.
StripValue(g) == [f \in DOMAIN g \ {"value"} |-> g[f]]

WithoutValues(metrics) ==
    [metrics EXCEPT
        !.regionalData = [i \in 1..Len(@) |-> StripValue(@[i])],
        !.topRegion = IF @ = Null THEN Null ELSE StripValue(@)]

\* C16: the value of every group is its revenue when the selector is
\* "revenue" and its spend when the selector is "spend", and the selector
\* decides nothing else: the set and the order of the groups, their
\* counters, derived metrics and campaignCount, the totals and the top
\* region are those computed under either selector.
C16_SelectorDecidesValueOnly ==
    (rPc = "done" /\ ~loading /\ marketingData.loaded) =>
        /\ \A i \in 1..Len(regionalMetrics.regionalData) :
              LET g == regionalMetrics.regionalData[i]
              IN  g.value = IF selectedValueKey = "revenue" THEN g.revenue
                            ELSE g.spend
        /\ \A valueKey \in {"revenue", "spend"} :
              WithoutValues(regionalMetrics)
                = WithoutValues(RegionalMetricsOf(marketingData, valueKey))

\* The selector switched to "spend" and the result recomputed: two groups,
\* the first valued by its spend, and a top region.
C16_Witness ==
    /\ RegionalDone
    /\ selectedValueKey = "spend"
    /\ Len(regionalMetrics.regionalData) = 2
    /\ regionalMetrics.regionalData[1].value = 100
    /\ regionalMetrics.regionalData[1].revenue = 300
    /\ regionalMetrics.topRegion # Null

(* ----------------------------- allocation ------------------------------ *)
DemographicDone == gPc = "done" /\ marketingData.loaded /\ marketingData.hasCampaigns

\* The percentages of the first n demographic entries of a campaign, summed.
RECURSIVE PercentageSum(_, _)
PercentageSum(campaign, n) ==
    IF n = 0 THEN 0
    ELSE PercentageSum(campaign, n - 1)
         + campaign.demographic_breakdown[n].percentage_of_audience

\* The allocated spend and revenue of every entry visited, by position.
RECURSIVE AllocationsUpTo(_, _, _)
AllocationsUpTo(campaigns, flat, n) ==
    IF n = 0 THEN <<>>
    ELSE Append(AllocationsUpTo(campaigns, flat, n - 1),
                Allocated(campaigns[flat[n].campaign], flat[n].entry))

Allocations(campaigns, flat) == AllocationsUpTo(campaigns, flat, Len(flat))

\* The amounts f ("spend" or "revenue") of the entries at the positions S
\* among the first n, added up in input order.
RECURSIVE AmountSum(_, _, _, _)
AmountSum(allocations, S, f, n) ==
    IF n = 0 THEN DZero
    ELSE IF n \in S
    THEN DAdd(AmountSum(allocations, S, f, n - 1), allocations[n][f])
    ELSE AmountSum(allocations, S, f, n - 1)

\* The positions, among the entries visited, of those of campaign c, of
\* those whose gender is spelled as in G, and of those of an age group.
OfCampaign(flat, c) == { m \in 1..Len(flat) : flat[m].campaign = c }

OfGender(flat, G) == { m \in 1..Len(flat) : flat[m].entry.gender \in G }

OfAgeGroup(flat, ageGroup) ==
    { m \in 1..Len(flat) : flat[m].entry.age_group = ageGroup }

\* The exact value of 100 times a double.
Times100Exactly(x) == Dyadic(BigMulLimb(x.m, 100), x.e)

\* The allocated spend and revenue summed over the entries of campaign c are
\* what the age-group series carry when the dataset is that campaign with a
\* single age group.
SeriesCarryAllocatedSums(allocations, flat, c) ==
    (/\ flat # <<>>
     /\ OfCampaign(flat, c) = 1..Len(flat)
     /\ OfAgeGroup(flat, flat[1].entry.age_group) = 1..Len(flat)) =>
        /\ Len(demographicMetrics.ageGroupSpend) = 1
        /\ Len(demographicMetrics.ageGroupRevenue) = 1
        /\ demographicMetrics.ageGroupSpend[1].value
             = AmountSum(allocations, 1..Len(flat), "spend", Len(flat))
        /\ demographicMetrics.ageGroupRevenue[1].value
             = AmountSum(allocations, 1..Len(flat), "revenue", Len(flat))

\* The 60/40 split of a campaign with spend 1000 and revenue 2000.
SixtyForty(campaign) ==
    /\ campaign.spend = 1000 /\ campaign.revenue = 2000
    /\ Len(campaign.demographic_breakdown) = 2
    /\ campaign.demographic_breakdown[1].percentage_of_audience = 60
    /\ campaign.demographic_breakdown[2].percentage_of_audience = 40

SixtyFortyExact(allocations, flat, c) ==
    SixtyForty(marketingData.campaigns[c]) =>
        LET first == CHOOSE m \in OfCampaign(flat, c) : flat[m].index = 1
            second == CHOOSE m \in OfCampaign(flat, c) : flat[m].index = 2
        IN  /\ allocations[first].spend = DOfNat(600)
            /\ allocations[second].spend = DOfNat(400)
            /\ allocations[first].revenue = DOfNat(1200)
            /\ allocations[second].revenue = DOfNat(800)
            /\ AmountSum(allocations, OfCampaign(flat, c), "spend", Len(flat))
                 = DOfNat(1000)
            /\ AmountSum(allocations, OfCampaign(flat, c), "revenue", Len(flat))
                 = DOfNat(2000)

\* C13 as stated: the allocated spend of every demographic entry is exactly
\* campaign.spend * percentage_of_audience / 100, its allocated revenue
\* exactly campaign.revenue * percentage_of_audience / 100, and whenever the
\* percentages of one campaign's entries sum to 100 the allocated spend and
\* revenue summed over that campaign's entries equal the campaign's spend
\* and revenue (60/40 of 1000/2000 gives 600, 400 and 1200, 800).
C13_AllocationsSumExactly ==
    DemographicDone =>
        LET flat == DemographicFlat
            campaigns == marketingData.campaigns
            allocations == Allocations(campaigns, flat)
        IN  /\ \A m \in 1..Len(flat) :
                  LET campaign == campaigns[flat[m].campaign]
                      percentage == flat[m].entry.percentage_of_audience
                  IN  /\ Times100Exactly(allocations[m].spend)
                           = DOfNat(campaign.spend * percentage)
                      /\ Times100Exactly(allocations[m].revenue)
                           = DOfNat(campaign.revenue * percentage)
            /\ \A c \in 1..Len(campaigns) :
                  /\ PercentageSum(campaigns[c],
                                   Len(campaigns[c].demographic_breakdown)) = 100 =>
                        /\ AmountSum(allocations, OfCampaign(flat, c), "spend",
                                     Len(flat)) = DOfNat(campaigns[c].spend)
                        /\ AmountSum(allocations, OfCampaign(flat, c), "revenue",
                                     Len(flat)) = DOfNat(campaigns[c].revenue)
                  /\ SeriesCarryAllocatedSums(allocations, flat, c)
                  /\ SixtyFortyExact(allocations, flat, c)

\* C13, amended: the allocated spend of every demographic entry is the
\* double campaign.spend * (percentage_of_audience / 100), which is
\* campaign.spend * percentage_of_audience / 100 up to floating-point
\* rounding, likewise the allocated revenue, and whenever the percentages of
\* one campaign's entries sum to 100 the allocated spend and revenue summed
\* over that campaign's entries equal the campaign's spend and revenue up to
\* floating-point rounding; 60/40 of 1000/2000 gives exactly 600, 400 and
\* 1200, 800, which sum exactly to 1000 and 2000.  (Up to rounding: within
\* a relative 2^-51 for an amount and 2^-50 for a sum.)
C13_AllocationsSumWithinRounding ==
    DemographicDone =>
        LET flat == DemographicFlat
            campaigns == marketingData.campaigns
            allocations == Allocations(campaigns, flat)
        IN  /\ \A m \in 1..Len(flat) :
                  LET campaign == campaigns[flat[m].campaign]
                      percentage == flat[m].entry.percentage_of_audience
                      s100 == DOfNat(campaign.spend * percentage)
                      r100 == DOfNat(campaign.revenue * percentage)
                  IN  /\ DWithin(Times100Exactly(allocations[m].spend),
                                 s100, s100, 51)
                      /\ DWithin(Times100Exactly(allocations[m].revenue),
                                 r100, r100, 51)
            /\ \A c \in 1..Len(campaigns) :
                  LET spend == DOfNat(campaigns[c].spend)
                      revenue == DOfNat(campaigns[c].revenue)
                  IN  /\ PercentageSum(campaigns[c],
                                       Len(campaigns[c].demographic_breakdown)) = 100 =>
                            /\ DWithin(AmountSum(allocations, OfCampaign(flat, c),
                                                 "spend", Len(flat)),
                                       spend, spend, 50)
                            /\ DWithin(AmountSum(allocations, OfCampaign(flat, c),
                                                 "revenue", Len(flat)),
                                       revenue, revenue, 50)
                      /\ SeriesCarryAllocatedSums(allocations, flat, c)
                      /\ SixtyFortyExact(allocations, flat, c)

\* A campaign with spend 7 split 60/20/20: the percentages sum to 100 and
\* the allocated spends sum to the double next above 7, not to 7.
C13_Witness ==
    /\ DemographicDone
    /\ Len(marketingData.campaigns) = 2
    /\ LET campaign == marketingData.campaigns[2]
           b == campaign.demographic_breakdown
       IN  /\ campaign.spend = 7
           /\ Len(b) = 3
           /\ [i \in 1..3 |-> b[i].percentage_of_audience] = <<60, 20, 20>>
    /\ AmountSum(Allocations(marketingData.campaigns, DemographicFlat),
                 OfCampaign(DemographicFlat, 2), "spend", Len(DemographicFlat))
         # DOfNat(7)
    /\ demographicMetrics.maleSpend # DZero

(* ---------------------------- gender totals ---------------------------- *)
\* The spellings of the two genders in any mix of cases, among the gender
\* strings of the datasets.
MaleSpellings == {"male", "Male", "MALE"}

FemaleSpellings == {"female", "Female", "FEMALE"}

\* Over the first n entries visited whose gender is spelled as in G: the
\* clicks of the entries' own performance records, summed.
RECURSIVE GenderClicks(_, _, _)
GenderClicks(flat, G, n) ==
    IF n = 0 THEN 0
    ELSE GenderClicks(flat, G, n - 1)
         + (IF flat[n].entry.gender \in G THEN flat[n].entry.performance.clicks
            ELSE 0)

\* The campaign list without the m-th demographic entry visited.
WithoutDemographicEntry(campaigns, m) ==
    LET item == Flat(campaigns, "demographic_breakdown", 1)[m]
        old == campaigns[item.campaign].demographic_breakdown
    IN  [campaigns EXCEPT ![item.campaign].demographic_breakdown =
            SubSeq(old, 1, item.index - 1) \o SubSeq(old, item.index + 1, Len(old))]

GenderFields ==
    {"maleClicks", "maleSpend", "maleRevenue", "femaleClicks", "femaleSpend",
     "femaleRevenue", "maleAgeGroups", "femaleAgeGroups"}

\* C17: gender is matched without regard to case.  Every entry whose gender
\* is male in any mix of cases, and no other, adds its own
\* performance.clicks, not scaled, and its allocated spend and revenue to
\* the male totals, likewise female; an entry of any other gender leaves the
\* six gender totals and both per-gender age-group tables as they are for
\* the dataset without that entry.
C17_GenderTotals ==
    DemographicDone =>
        LET flat == DemographicFlat
            campaigns == marketingData.campaigns
            allocations == Allocations(campaigns, flat)
            n == Len(flat)
            male == OfGender(flat, MaleSpellings)
            female == OfGender(flat, FemaleSpellings)
        IN  /\ demographicMetrics.maleClicks = GenderClicks(flat, MaleSpellings, n)
            /\ demographicMetrics.maleSpend = AmountSum(allocations, male, "spend", n)
            /\ demographicMetrics.maleRevenue
                 = AmountSum(allocations, male, "revenue", n)
            /\ demographicMetrics.femaleClicks
                 = GenderClicks(flat, FemaleSpellings, n)
            /\ demographicMetrics.femaleSpend
                 = AmountSum(allocations, female, "spend", n)
            /\ demographicMetrics.femaleRevenue
                 = AmountSum(allocations, female, "revenue", n)
            /\ \A m \in (1..n) \ (male \cup female) :
                  LET without == DemographicMetricsOf(
                          Loaded(WithoutDemographicEntry(campaigns, m)))
                  IN  \A f \in GenderFields : demographicMetrics[f] = without[f]

\* A "FEMALE", an "Other" and a "male" entry were scanned: the first counts
\* as female, the last as male, the second as neither.
C17_Witness ==
    /\ DemographicDone
    /\ { DemographicFlat[m].entry.gender : m \in 1..Len(DemographicFlat) }
         = {"FEMALE", "Other", "male"}
    /\ Len(DemographicFlat) = 3
    /\ demographicMetrics.femaleClicks = 100
    /\ demographicMetrics.maleClicks = 4
    /\ demographicMetrics.maleSpend # DZero
    /\ Len(demographicMetrics.ageGroupSpend) = 2

(* ------------------------- age-group rollups --------------------------- *)
Genders == { e.gender : e \in DemographicEntries }

\* The age groups of the entries visited whose gender is in G.
AgeGroupsOf(flat, G) == { flat[m].entry.age_group : m \in OfGender(flat, G) }

\* C18: each cross-gender age-group rollup has exactly one entry for every
\* distinct age_group occurring in any demographic entry of any campaign,
\* and its value is the sum of the allocated spend (for the revenue rollup,
\* revenue) of all entries of that age group, whatever their gender, those
\* that are neither male nor female included.
C18_CrossGenderRollups ==
    DemographicDone =>
        LET flat == DemographicFlat
            allocations == Allocations(marketingData.campaigns, flat)
            groups == AgeGroupsOf(flat, Genders)
            spend == demographicMetrics.ageGroupSpend
            revenue == demographicMetrics.ageGroupRevenue
        IN  /\ Len(spend) = Cardinality(groups)
            /\ Len(revenue) = Cardinality(groups)
            /\ { spend[i].label : i \in 1..Len(spend) } = groups
            /\ { revenue[i].label : i \in 1..Len(revenue) } = groups
            /\ \A i \in 1..Len(spend) :
                  spend[i].value
                    = AmountSum(allocations, OfAgeGroup(flat, spend[i].label),
                                "spend", Len(flat))
            /\ \A i \in 1..Len(revenue) :
                  revenue[i].value
                    = AmountSum(allocations, OfAgeGroup(flat, revenue[i].label),
                                "revenue", Len(flat))

\* The age group "65" received an "Other" and a "male" entry, a second age
\* group one more entry: two rollup entries, that of "65" holding both
\* allocations of a campaign with spend 1000 (200 + 200).
C18_Witness ==
    /\ DemographicDone
    /\ Len(DemographicFlat) = 3
    /\ Len(marketingData.campaigns) = 1
    /\ { DemographicFlat[m].entry.gender : m \in OfAgeGroup(DemographicFlat, "65") }
         = {"Other", "male"}
    /\ Len(demographicMetrics.ageGroupSpend) = 2
    /\ \E i \in 1..2 :
          /\ demographicMetrics.ageGroupSpend[i].label = "65"
          /\ demographicMetrics.ageGroupSpend[i].value = DOfNat(400)

(* ------------------------ per-gender age tables ------------------------ *)
\* Over the first n entries visited of the age group whose gender is in G:
\* the counter f of the entry's own performance record, summed.
RECURSIVE PerformanceSum(_, _, _, _, _)
PerformanceSum(flat, G, ageGroup, f, n) ==
    IF n = 0 THEN 0
    ELSE PerformanceSum(flat, G, ageGroup, f, n - 1)
         + (IF flat[n].entry.gender \in G /\ flat[n].entry.age_group = ageGroup
            THEN flat[n].entry.performance[f] ELSE 0)

AgeTableCorrect(table, flat, G) ==
    /\ Len(table) = Cardinality(AgeGroupsOf(flat, G))
    /\ { table[i].age_group : i \in 1..Len(table) } = AgeGroupsOf(flat, G)
    /\ \A i \in 1..Len(table) :
          LET row == table[i]
          IN  /\ \A f \in {"impressions", "clicks", "conversions"} :
                    row[f] = PerformanceSum(flat, G, row.age_group, f, Len(flat))
              /\ row.ctr = IF row.impressions > 0
                           THEN Times100(Div(row.clicks, row.impressions))
                           ELSE Num(0)
              /\ row.conversion_rate = IF row.clicks > 0
                                       THEN Times100(Div(row.conversions, row.clicks))
                                       ELSE Num(0)

\* C19: each per-gender age-group table has one row per age group of that
\* gender; its impressions, clicks and conversions are the plain sums of the
\* entries' own performance counters, never multiplied by the audience
\* percentage, and its ctr and conversion_rate are the zero-guarded formulas
\* applied to those final sums.
C19_PerGenderAgeTables ==
    DemographicDone =>
        /\ AgeTableCorrect(demographicMetrics.maleAgeGroups, DemographicFlat,
                           MaleSpellings)
        /\ AgeTableCorrect(demographicMetrics.femaleAgeGroups, DemographicFlat,
                           FemaleSpellings)

\* Two male entries of one age group summed to 2000 impressions with a ctr
\* of 5, and a male age group without impressions whose ctr is 0 and whose
\* conversion rate is 25.
C19_Witness ==
    /\ DemographicDone
    /\ Len(demographicMetrics.maleAgeGroups) = 2
    /\ \E i \in 1..2 :
          LET row == demographicMetrics.maleAgeGroups[i]
          IN  row.impressions = 2000 /\ row.clicks = 100 /\ row.ctr = Num(5)
              /\ row.conversion_rate = Num(10)
    /\ \E i \in 1..2 :
          LET row == demographicMetrics.maleAgeGroups[i]
          IN  row.impressions = 0 /\ row.clicks = 4 /\ row.ctr = Num(0)
              /\ row.conversion_rate = Num(25)
    /\ \A m \in 1..Len(DemographicFlat) :
          DemographicFlat[m].entry.percentage_of_audience \in {20, 60}

(* -------------------------- order of the output ------------------------ *)
\* The age groups of the first n entries visited whose gender is in G, each
\* once, in the order of its first occurrence.
RECURSIVE FirstEncountered(_, _, _)
FirstEncountered(flat, G, n) ==
    IF n = 0 THEN <<>>
    ELSE LET before == FirstEncountered(flat, G, n - 1)
             ageGroup == flat[n].entry.age_group
         IN  IF flat[n].entry.gender \in G
                /\ \A i \in 1..Len(before) : before[i] # ageGroup
             THEN Append(before, ageGroup)
             ELSE before

\* C20: the entries of the two cross-gender age-group series and the rows of
\* the two per-gender age-group tables appear in the order in which their
\* age_group was first encountered while scanning the campaigns and their
\* demographic entries in input order, whatever the age_group strings are,
\* strings made of decimal digits only included.
C20_FirstEncounterOrder ==
    DemographicDone =>
        LET flat == DemographicFlat
            n == Len(flat)
        IN  /\ [i \in 1..Len(demographicMetrics.ageGroupSpend) |->
                    demographicMetrics.ageGroupSpend[i].label]
                 = FirstEncountered(flat, Genders, n)
            /\ [i \in 1..Len(demographicMetrics.ageGroupRevenue) |->
                    demographicMetrics.ageGroupRevenue[i].label]
                 = FirstEncountered(flat, Genders, n)
            /\ [i \in 1..Len(demographicMetrics.maleAgeGroups) |->
                    demographicMetrics.maleAgeGroups[i].age_group]
                 = FirstEncountered(flat, MaleSpellings, n)
            /\ [i \in 1..Len(demographicMetrics.femaleAgeGroups) |->
                    demographicMetrics.femaleAgeGroups[i].age_group]
                 = FirstEncountered(flat, FemaleSpellings, n)

(* ======================= properties: campaignCount ===================== *)
\* The entries visited that are folded under the key of the group g.
FoldedInto(flat, g) ==
    { m \in 1..Len(flat) : RegionKey(flat[m].entry) = RegionKey(g) }

\* The entries visited that carry the device label.
Labelled(flat, label) == { m \in 1..Len(flat) : flat[m].entry.device = label }

\* C21: the campaignCount of a regional group and of a device bucket is the
\* number of breakdown entries folded into it, not the number of distinct
\* campaigns: a campaign listing the same key or the same device label k
\* times adds k to the count.
C21_CampaignCountCountsEntries ==
    /\ RegionalDone =>
          \A i \in 1..Len(regionalMetrics.regionalData) :
              LET g == regionalMetrics.regionalData[i]
              IN  g.campaignCount = Cardinality(FoldedInto(RegionalFlat, g))
    /\ DeviceDone =>
          /\ deviceMetrics.mobile.campaignCount
                = Cardinality(Labelled(DeviceFlat, "Mobile"))
          /\ deviceMetrics.desktop.campaignCount
                = Cardinality(Labelled(DeviceFlat, "Desktop"))

\* One campaign lists ("Dubai", "UAE") three times: one group, counted 3.
C21_Witness ==
    /\ RegionalDone
    /\ Len(marketingData.campaigns) = 1
    /\ Len(RegionalFlat) = 3
    /\ Len(regionalMetrics.regionalData) = 1
    /\ regionalMetrics.regionalData[1].region = "Dubai"
    /\ regionalMetrics.regionalData[1].campaignCount = 3

(* ==================== properties: independent passes =================== *)
\* C22: over one shared dataset, with the steps of the four passes in any
\* interleaving, each aggregator that has finished holds the result it
\* gives when run alone on that dataset: none writes what another reads,
\* none reads another's output.
C22_InterleavedAsAlone ==
    /\ RegionalDone =>
          regionalMetrics = RegionalMetricsOf(marketingData, selectedValueKey)
    /\ DeviceDone => deviceMetrics = DeviceMetricsOf(marketingData)
    /\ WeeklyDone => weeklyMetrics = WeeklyMetricsOf(marketingData)
    /\ DemographicDone => demographicMetrics = DemographicMetricsOf(marketingData)

\* Two campaigns with one entry of every dimension each: the regional and
\* the device pass have finished while the weekly pass is between its two
\* entries and the demographic pass has not folded any.
C22_Witness ==
    /\ view = "shared"
    /\ Len(marketingData.campaigns) = 2
    /\ Len(RegionalFlat) = 2 /\ Len(DeviceFlat) = 2
    /\ Len(WeeklyFlat) = 2 /\ Len(DemographicFlat) = 2
    /\ RegionalDone /\ DeviceDone
    /\ wPc = "fold" /\ wIdx = 1
    /\ gPc = "fold" /\ gIdx = 0
    /\ regionalMetrics.regionalData[1].campaignCount = 2

(* ======================= properties: fetch lifecycle =================== *)
\* The fetch failed: a non-empty message, no dataset.
SettledFailed == error # <<>> /\ error[1] # "" /\ ~marketingData.loaded

\* The fetch succeeded: a dataset, no error.
SettledLoaded == error = <<>> /\ marketingData.loaded

\* Every memo holds the default of its aggregator.
MemosAtDefault ==
    /\ regionalMetrics = RegionalDefault
    /\ deviceMetrics = DeviceDefault
    /\ weeklyMetrics = WeeklyDefault
    /\ demographicMetrics = DemographicDefault

\* C23: in every view, once the fetch settles the loading flag is false and
\* stays false; a failed fetch leaves a non-empty error message and a null
\* dataset, a successful one a dataset and a null error, never both; and
\* while the dataset is null every aggregator holds its default.
C23_FetchSettles ==
    [][ /\ ~loading => ~loading'
        /\ ~loading' => (SettledFailed' \/ SettledLoaded')
        /\ ~marketingData'.loaded => MemosAtDefault' ]_vars

(* ==================== properties: regions off the table ================ *)
\* The sum of the counter f over the entries at the positions S of the
\* first n entries visited.
RECURSIVE CounterSum(_, _, _, _)
CounterSum(flat, S, f, n) ==
    IF n = 0 THEN 0
    ELSE CounterSum(flat, S, f, n - 1) + (IF n \in S THEN flat[n].entry[f] ELSE 0)

InTable(g) == g.region \in DOMAIN UAE_CITY_COORDINATES

\* C24: a regional entry whose region name is not in the coordinate table
\* does not stop the pass: its group is emitted with lat and lng absent,
\* its counters count toward the group and the grand totals, and it can be
\* the top region; a group whose region name is in the table carries the
\* table's latitude and longitude.
C24_RegionsOffTheTable ==
    RegionalDone =>
        LET data == regionalMetrics.regionalData
            flat == RegionalFlat
        IN  /\ \A m \in 1..Len(flat) :
                  \E i \in 1..Len(data) : m \in FoldedInto(flat, data[i])
            /\ \A i \in 1..Len(data) :
                  /\ IF InTable(data[i])
                     THEN /\ data[i].lat = UAE_CITY_COORDINATES[data[i].region][1]
                          /\ data[i].lng = UAE_CITY_COORDINATES[data[i].region][2]
                     ELSE data[i].lat = Undefined /\ data[i].lng = Undefined
                  /\ \A f \in BaseCounters :
                        data[i][f]
                            = CounterSum(flat, FoldedInto(flat, data[i]), f, Len(flat))
            /\ regionalMetrics.totalRevenue
                  = CounterSum(flat, 1..Len(flat), "revenue", Len(flat))
            /\ regionalMetrics.totalSpend
                  = CounterSum(flat, 1..Len(flat), "spend", Len(flat))
            /\ regionalMetrics.totalImpressions
                  = CounterSum(flat, 1..Len(flat), "impressions", Len(flat))
            /\ regionalMetrics.totalClicks
                  = CounterSum(flat, 1..Len(flat), "clicks", Len(flat))
            /\ regionalMetrics.totalConversions
                  = CounterSum(flat, 1..Len(flat), "conversions", Len(flat))

\* A Dubai group with the table's coordinates next to a group of a region
\* the table does not list, which has no coordinates, has revenue and is
\* the top region.
C24_Witness ==
    /\ RegionalDone
    /\ Len(regionalMetrics.regionalData) = 2
    /\ regionalMetrics.regionalData[1].region = "Dubai"
    /\ regionalMetrics.regionalData[1].lat = Div(252048, 10000)
    /\ ~InTable(regionalMetrics.regionalData[2])
    /\ regionalMetrics.regionalData[2].lat = Undefined
    /\ regionalMetrics.regionalData[2].revenue > 0
    /\ regionalMetrics.topRegion = regionalMetrics.regionalData[2]
    /\ regionalMetrics.totalRevenue
          = regionalMetrics.regionalData[1].revenue
            + regionalMetrics.regionalData[2].revenue

(* ======================== properties: traffic share ==================== *)
\* The impressions of the entries visited that carry the device label.
LabelImpressions(label) ==
    CounterSum(DeviceFlat, Labelled(DeviceFlat, label), "impressions",
               Len(DeviceFlat))

\* 0 <= x <= 100 for a double x.
DPercent(x) == x # DNaN /\ DWithin(x, DOfNat(50), DOfNat(50), 0)

\* Both shares are those of the final sums, each between 0 and 100.
SharesOfFinalSums ==
    LET m == LabelImpressions("Mobile")
        d == LabelImpressions("Desktop")
    IN  /\ deviceMetrics.mobile.percentage_of_traffic = TrafficShare(m, m + d)
        /\ deviceMetrics.desktop.percentage_of_traffic = TrafficShare(d, m + d)
        /\ DPercent(deviceMetrics.mobile.percentage_of_traffic)
        /\ DPercent(deviceMetrics.desktop.percentage_of_traffic)

\* C25 as stated: with Mobile plus Desktop impressions above 0, each
\* bucket's percentage_of_traffic lies between 0 and 100, both are computed
\* from the same final denominator whatever the order of the entries, and
\* the two percentages sum to 100.
C25_SharesSumTo100 ==
    (DeviceDone /\ ~NoTraffic) =>
        /\ SharesOfFinalSums
        /\ DAdd(deviceMetrics.mobile.percentage_of_traffic,
                deviceMetrics.desktop.percentage_of_traffic) = DOfNat(100)

\* C25, amended: with Mobile plus Desktop impressions above 0, each
\* bucket's percentage_of_traffic lies between 0 and 100, both are computed
\* from the same final denominator whatever the order of the entries, and
\* the two percentages sum to 100 up to the rounding of the double
\* divisions, products and sum: to within 100 * 2^-51.
C25_SharesSumTo100WithinRounding ==
    (DeviceDone /\ ~NoTraffic) =>
        /\ SharesOfFinalSums
        /\ DWithin(DAdd(deviceMetrics.mobile.percentage_of_traffic,
                        deviceMetrics.desktop.percentage_of_traffic),
                   DOfNat(100), DOfNat(100), 51)

\* A Desktop entry of 2000 impressions folded before a Mobile entry of
\* 1000: the shares are the doubles of 100/3 and 200/3, whose sum is the
\* double below 100.
C25_Witness ==
    /\ DeviceDone
    /\ Len(DeviceFlat) = 2
    /\ DeviceFlat[1].entry.device = "Desktop"
    /\ DeviceFlat[2].entry.device = "Mobile"
    /\ deviceMetrics.mobile.impressions = 1000
    /\ deviceMetrics.desktop.impressions = 2000
    /\ DAdd(deviceMetrics.mobile.percentage_of_traffic,
            deviceMetrics.desktop.percentage_of_traffic) # DOfNat(100)

(* ===================== properties: null top region ===================== *)
\* C26: in the regional result the top region is null exactly when no
\* group has revenue greater than 0: groups that all have revenue 0 yield a
\* null top region, any group with positive revenue a non-null one.
C26_TopRegionNullIffNoRevenue ==
    RegionalDone =>
        LET data == regionalMetrics.regionalData
        IN  (regionalMetrics.topRegion = Null)
                <=> (\A i \in 1..Len(data) : ~(data[i].revenue > 0))

\* Two groups, neither with revenue: the top region is null.
C26_Witness ==
    /\ RegionalDone
    /\ Len(regionalMetrics.regionalData) = 2
    /\ regionalMetrics.regionalData[1].revenue = 0
    /\ regionalMetrics.regionalData[2].revenue = 0
    /\ regionalMetrics.topRegion = Null

(* ================= properties: demographic consistency ================= *)
\* The values of the first n points of a series, added in series order.
RECURSIVE SeriesSum(_, _)
SeriesSum(series, n) ==
    IF n = 0 THEN DZero ELSE DAdd(SeriesSum(series, n - 1), series[n].value)

\* The clicks of the first n rows of an age-group table.
RECURSIVE RowsClicks(_, _)
RowsClicks(rows, n) == IF n = 0 THEN 0 ELSE RowsClicks(rows, n - 1) + rows[n].clicks

\* The amount f allocated to those of the first n entries visited whose
\* gender is neither male nor female, added in input order.
RECURSIVE OtherAmount(_, _, _, _)
OtherAmount(campaigns, flat, f, n) ==
    IF n = 0 THEN DZero
    ELSE IF ToLowerCase(flat[n].entry.gender) \in {"male", "female"}
    THEN OtherAmount(campaigns, flat, f, n - 1)
    ELSE DAdd(OtherAmount(campaigns, flat, f, n - 1),
              Allocated(campaigns[flat[n].campaign], flat[n].entry)[f])

\* maleSpend + femaleSpend + the spend allocated to the other entries, and
\* the same of the revenue.
GenderSideSpend ==
    DAdd(DAdd(demographicMetrics.maleSpend, demographicMetrics.femaleSpend),
         OtherAmount(marketingData.campaigns, DemographicFlat, "spend",
                     Len(DemographicFlat)))

GenderSideRevenue ==
    DAdd(DAdd(demographicMetrics.maleRevenue, demographicMetrics.femaleRevenue),
         OtherAmount(marketingData.campaigns, DemographicFlat, "revenue",
                     Len(DemographicFlat)))

SeriesSpend ==
    SeriesSum(demographicMetrics.ageGroupSpend, Len(demographicMetrics.ageGroupSpend))

SeriesRevenue ==
    SeriesSum(demographicMetrics.ageGroupRevenue,
              Len(demographicMetrics.ageGroupRevenue))

\* The clicks totals are those of the tables, and the two series have the
\* same labels in the same order.
ClicksAndLabelsAgree ==
    /\ demographicMetrics.maleClicks
          = RowsClicks(demographicMetrics.maleAgeGroups,
                       Len(demographicMetrics.maleAgeGroups))
    /\ demographicMetrics.femaleClicks
          = RowsClicks(demographicMetrics.femaleAgeGroups,
                       Len(demographicMetrics.femaleAgeGroups))
    /\ Len(demographicMetrics.ageGroupSpend) = Len(demographicMetrics.ageGroupRevenue)
    /\ \A i \in 1..Len(demographicMetrics.ageGroupSpend) :
          demographicMetrics.ageGroupSpend[i].label
              = demographicMetrics.ageGroupRevenue[i].label

\* C27 as stated: maleClicks is the sum of clicks over the male age-group
\* table and femaleClicks over the female table, the age-group spend and
\* revenue series have the same labels in the same order, and the sum of
\* the age-group spend series equals maleSpend plus femaleSpend plus the
\* allocated spend of the entries that are neither male nor female
\* (likewise for revenue).
C27_DemographicOutputsAgree ==
    DemographicDone =>
        /\ ClicksAndLabelsAgree
        /\ SeriesSpend = GenderSideSpend
        /\ SeriesRevenue = GenderSideRevenue

\* C27, amended: the clicks totals are the sums over the tables, the two
\* series have the same labels in the same order, and the sum of the
\* age-group spend series equals maleSpend plus femaleSpend plus the
\* allocated spend of the other entries up to the rounding of the double
\* additions, which the two sides make in different orders: for n entries
\* to within n * 2^-52 of the sum (likewise for revenue).
C27_DemographicOutputsAgreeWithinRounding ==
    DemographicDone =>
        LET n == DOfNat(Len(DemographicFlat))
        IN  /\ ClicksAndLabelsAgree
            /\ DWithin(SeriesSpend, GenderSideSpend, DMul(n, GenderSideSpend), 52)
            /\ DWithin(SeriesRevenue, GenderSideRevenue,
                       DMul(n, GenderSideRevenue), 52)

\* A campaign with spend 7 split 60 / 20 / 20 over a "Male" entry of one
\* age group and an "Other" and a "male" entry of another: the series add
\* up to 7, the gender side to the double above 7.
C27_Witness ==
    /\ DemographicDone
    /\ Len(DemographicFlat) = 3
    /\ { DemographicFlat[m].entry.gender : m \in 1..3 } = {"Male", "Other", "male"}
    /\ Len(demographicMetrics.ageGroupSpend) = 2
    /\ Len(demographicMetrics.maleAgeGroups) = 2
    /\ demographicMetrics.maleClicks = 54
    /\ SeriesSpend = DOfNat(7)
    /\ GenderSideSpend # DOfNat(7)

(* ========================= properties: line chart ====================== *)
\* A number between 0 and 100.
IsPercent(q) == q # NaN /\ 0 <= q[1] /\ q[1] <= 100 * q[2]

AllEqual(points) == \A i, j \in 1..Len(points) : points[i].value = points[j].value

\* C28: for every non-empty series handed to the line chart, a series of
\* one point included, every point's x is a number between 0 and 100 and
\* its y a number between 0 and 100, y being 50 for all points when all
\* values are equal.
C28_PointsWithinTheBox ==
    \A c \in 1..Len(wCharts) : \A i \in 1..Len(wCharts[c]) :
        /\ IsPercent(wCharts[c][i].x)
        /\ IsPercent(wCharts[c][i].y)
        /\ AllEqual(wCharts[c]) => wCharts[c][i].y = Num(50)

(* ========================== properties: heat map ======================= *)
\* C29: in the heat map, however effect runs, timers, script loads and
\* cleanups interleave, at most one map instance exists at any time, an
\* initialization whose effect was cleaned up before or during the script
\* load never creates a map, and once the last effect has been cleaned up
\* the map instance reference is null and the marker list is empty.
C29_OneMapAndCleanEnd ==
    /\ Cardinality(maps) <= 1
    /\ \A i \in 1..Len(runs) : ~(runs[i].cleanedEarly /\ runs[i].created)
    /\ LiveRun = 0 => (mapInstanceRef = 0 /\ markersRef = <<>> /\ maps = {})

\* Three runs: the first was cleaned up during its script load, which has
\* since completed, the second created a map and was cleaned up, the third
\* was cleaned up by the unmount before its timer fired; no map is left.
C29_Witness ==
    /\ hLife = "gone"
    /\ Len(runs) = 3
    /\ runs[1].cleanedEarly /\ runs[1].timer = "fired" /\ runs[1].pc = "done"
    /\ runs[2].created /\ ~runs[2].cleanedEarly
    /\ runs[3].timer = "cleared"
    /\ windowL
    /\ maps = {} /\ mapInstanceRef = 0 /\ markersRef = <<>>

(* ========================= properties: device rows ===================== *)
\* The row of the entry at position m of the device scan.
RowOfEntry(m) ==
    LET item == DeviceFlat[m]
        device == item.entry
    IN  [campaignName |-> marketingData.campaigns[item.campaign].name,
         device |-> device.device,
         impressions |-> device.impressions, clicks |-> device.clicks,
         conversions |-> device.conversions, spend |-> device.spend,
         revenue |-> device.revenue, ctr |-> device.ctr,
         conversion_rate |-> device.conversion_rate,
         roas |-> IF device.spend > 0 THEN Div(device.revenue, device.spend)
                  ELSE Num(0)]

\* C30: the flat row list of the device view has exactly one row per device
\* entry of every campaign, in input order, entries labelled neither Mobile
\* nor Desktop included; each row carries the entry's own counters and
\* stored ctr unchanged, and roas = revenue / spend when spend > 0, else 0.
C30_OneRowPerEntry ==
    DeviceDone =>
        /\ Len(deviceMetrics.performanceByCampaign) = Len(DeviceFlat)
        /\ \A m \in 1..Len(DeviceFlat) :
              deviceMetrics.performanceByCampaign[m] = RowOfEntry(m)

\* Two campaigns, three entries: a Desktop entry with stale stored rates, a
\* Tablet entry, a Mobile entry without spend; three rows, the stale ctr
\* kept, the last roas 0.
C30_Witness ==
    /\ DeviceDone
    /\ Len(marketingData.campaigns) = 2
    /\ Len(DeviceFlat) = 3
    /\ DeviceFlat[1].entry = DeviceEntry("Desktop", CountersB, StaleDerived)
    /\ DeviceFlat[2].entry.device = "Tablet"
    /\ DeviceFlat[3].entry.device = "Mobile" /\ DeviceFlat[3].entry.spend = 0
    /\ DeviceFlat[3].campaign = 2
    /\ Len(deviceMetrics.performanceByCampaign) = 3
    /\ deviceMetrics.performanceByCampaign[1].ctr = StaleDerived.ctr
    /\ deviceMetrics.performanceByCampaign[1].ctr # Ctr(2000, 100)
    /\ deviceMetrics.performanceByCampaign[2].device = "Tablet"
    /\ deviceMetrics.performanceByCampaign[3].roas = Num(0)
    /\ deviceMetrics.performanceByCampaign[3].campaignName = "Campaign 2"

============================================================================
